---- MODULE Spec2Model ----
(***************************************************************************)
(* A model of the image compositing editor of src/app.js: the image layer  *)
(* (the scene), the selection, the undo and redo stacks, the timers of the *)
(* keyboard nudge and of the opacity digits, the pointer gestures, and the *)
(* crop geometry.                                                          *)
(*                                                                         *)
(* Numbers.  Positions and source sizes are integers (pixels).  A scale    *)
(* factor is kept in hundredths (100 is the factor 1.0, -100 a flip), an   *)
(* opacity in hundredths (100 is opaque), a rotation in whole degrees.     *)
(* The inputs that the specifications enumerate are chosen so that every   *)
(* division the code performs on them is exact.                            *)
(***************************************************************************)
EXTENDS Integers, Sequences, FiniteSets, TLC

VARIABLES
    layer,             \* imageLayer.children that are Konva.Image, in child (paint) order
    selected,          \* transformer.nodes(): the _id of the selected node, or NoNode
    undoStack,         \* undoStack
    redoStack,         \* redoStack
    imageCount,        \* imageCount
    nextImageId,       \* the ids generateImageId() has handed out so far
    nextNodeId,        \* Konva's node counter (_id of the next node created)
    nudgeUndoPushed,   \* nudgeUndoPushed
    nudgeUndoTimeout,  \* TRUE while the 500 ms timer of handleNudge is pending
    opacityInput,      \* opacityInput: [firstDigit, timeout]
    gesture,           \* the pointer gesture in progress (drag, crop handle, resize)
    hist,              \* history: the last two user actions, with the scene before each
    run,               \* history: the current run of keyboard nudges
    steps,             \* history: the number of user actions taken
    digitFor,          \* history: the id of the image selected when the pending digit was pressed
    batch,             \* the files handleFiles has still to handle, in order
    alerts,            \* the number of alert() dialogs shown so far
    contextMenu,       \* contextMenu: the _id of the node the open menu was shown for, or NoNode
    destroyed,         \* the destroyed node the menu or the transformer still refers to
    saves,             \* the saveProject() calls in flight: [state, projectData]
    downloads,         \* the project data of the project.montage files written so far
    simple,            \* the editor of the simpler variant, given the same input
    loading,           \* the loadProject() call whose archive is still being read
    probe              \* the inputs and results of the pure edge-mapping functions

vars == <<layer, selected, undoStack, redoStack, imageCount, nextImageId, nextNodeId,
          nudgeUndoPushed, nudgeUndoTimeout, opacityInput, gesture, hist, run, steps, digitFor,
          batch, alerts, contextMenu, destroyed, saves, downloads, simple, loading,
          probe>>

(***************************************************************************)
(* Program constants and the environment.                                  *)
(***************************************************************************)
MAX_UNDO_LEVELS == 30

minSize == 20

StageWidth == 800

StageHeight == 600

ScaleOne == 100

OpacityOne == 100

NoNode == 0

NoId == 0

NoDigit == -1

(***************************************************************************)
(* Bounds of the model.                                                    *)
(***************************************************************************)
MaxSteps == 4

MaxNudgeSteps == 5

MaxStackSteps == 33

MaxFlipSteps == 5

MaxCropSteps == 5

MaxAnchorSteps == 3

MaxOpacitySteps == 3

MaxIdleSteps == 4

MaxLoadSteps == 4

MaxBatchSteps == 5

MaxMenuSteps == 4

MaxSaveSteps == 4

MaxKeySteps == 3

MaxClampSteps == 4

MaxBoundsSteps == 4

MaxVariantSteps == 4

MaxTurnSteps == 6

MaxPendingSteps == 5

(***************************************************************************)
(* Arithmetic helpers.                                                     *)
(***************************************************************************)
Min2(a, b) == IF a < b THEN a ELSE b

Max2(a, b) == IF a > b THEN a ELSE b

Abs(a) == IF a < 0 THEN -a ELSE a

\* JavaScript's % : the remainder has the sign of the dividend.
JsRem(a, b) == IF a >= 0 THEN a % b ELSE -((-a) % b)

\* Math.round(a / b) for b > 0: floor(a / b + 1/2).
RoundDiv(a, b) == (2 * a + b) \div (2 * b)

Range(s) == {s[i] : i \in DOMAIN s}

Last(s) == s[Len(s)]

Front(s) == SubSeq(s, 1, Len(s) - 1)

ZeroCrop == [top |-> 0, right |-> 0, bottom |-> 0, left |-> 0]

(***************************************************************************)
(* Utility functions.                                                      *)
(***************************************************************************)
\* getSelectedImage(): the selected node, or NoNode.
getSelectedImage == selected

IsLive(nid) == \E i \in DOMAIN layer : layer[i].nid = nid

\* No destroyed node is referred to.
NoDestroyed == [nid |-> NoNode]

\* The node with the _id nid: a child of the layer or, once destroyed, the object the
\* context menu or the transformer still holds.
NodeOf(nid) ==
    IF IsLive(nid) THEN layer[CHOOSE i \in DOMAIN layer : layer[i].nid = nid]
    ELSE destroyed

IndexOf(nid) == CHOOSE i \in DOMAIN layer : layer[i].nid = nid

\* findImageById(imageId) on a list of nodes: the first child with that id.
findImageById(L, imageId) ==
    LET hits == {i \in DOMAIN L : L[i].imageId = imageId}
    IN  IF hits = {} THEN NoNode
        ELSE L[CHOOSE i \in hits : \A j \in hits : i <= j].nid

getViewportCenter == [x |-> StageWidth \div 2, y |-> StageHeight \div 2]

(***************************************************************************)
(* State management: captureState, createKonvaImageFromState, restoreState *)
(***************************************************************************)
\* One entry of captureState().images for the node n painted at index z.
ImageStateOf(n, z) ==
    [id |-> n.imageId, imageRef |-> n.imageRef,
     originalWidth |-> n.originalWidth, originalHeight |-> n.originalHeight,
     x |-> n.x, y |-> n.y, scaleX |-> n.scaleX, scaleY |-> n.scaleY,
     rotation |-> n.rotation, cropBounds |-> n.cropBounds,
     blendMode |-> n.blendMode, opacity |-> n.opacity, name |-> n.name,
     zIndex |-> z]

\* captureState().images: the images sorted by zIndex(), which is the child order,
\* each with zIndex set to its index.
captureState(L) == [i \in 1..Len(L) |-> ImageStateOf(L[i], i - 1)]

\* A createKonvaImageFromState that leaves blend mode and opacity at Konva's defaults.
createKonvaImageFromStateDefaults(imgState, nid) ==
    [nid |-> nid, imageId |-> imgState.id, imageRef |-> imgState.imageRef,
     originalWidth |-> imgState.originalWidth,
     originalHeight |-> imgState.originalHeight,
     x |-> imgState.x, y |-> imgState.y,
     scaleX |-> imgState.scaleX, scaleY |-> imgState.scaleY,
     rotation |-> imgState.rotation, cropBounds |-> imgState.cropBounds,
     blendMode |-> "source-over", opacity |-> OpacityOne,
     name |-> imgState.name]

createKonvaImageFromState(imgState, nid) ==
    [nid |-> nid, imageId |-> imgState.id, imageRef |-> imgState.imageRef,
     originalWidth |-> imgState.originalWidth,
     originalHeight |-> imgState.originalHeight,
     x |-> imgState.x, y |-> imgState.y,
     scaleX |-> imgState.scaleX, scaleY |-> imgState.scaleY,
     rotation |-> imgState.rotation, cropBounds |-> imgState.cropBounds,
     blendMode |-> imgState.blendMode, opacity |-> imgState.opacity,
     name |-> imgState.name]

\* [...state.images].sort((a, b) => a.zIndex - b.zIndex): a stable sort.
RECURSIVE InsertByZIndex(_, _)
InsertByZIndex(sorted, e) ==
    IF sorted = <<>> THEN <<e>>
    ELSE IF Last(sorted).zIndex <= e.zIndex THEN Append(sorted, e)
    ELSE Append(InsertByZIndex(Front(sorted), e), Last(sorted))

RECURSIVE SortByZIndex(_)
SortByZIndex(images) ==
    IF images = <<>> THEN <<>>
    ELSE InsertByZIndex(SortByZIndex(Front(images)), Last(images))

\* The image nodes restoreState(state) puts on the layer; the first gets _id `first`.
restoredLayer(state, first) ==
    LET sortedImages == SortByZIndex(state)
    IN  [i \in 1..Len(sortedImages) |->
            createKonvaImageFromState(sortedImages[i], first + i - 1)]

NoGesture == [kind |-> "none", node |-> NoNode, handle |-> "none", pos |-> 0]

\* A restoreState that leaves nothing selected.
RestoreStateClearing(state) ==
    LET newLayer == restoredLayer(state, nextNodeId)
    IN  /\ layer' = newLayer
        /\ nextNodeId' = nextNodeId + Len(newLayer)
        /\ selected' = NoNode
        /\ gesture' = NoGesture

\* restoreState(state): the current images are destroyed, the images of `state` are
\* created, and the selection is kept by imageId if that image still exists.  The
\* crop handles are removed, which ends a gesture on the destroyed nodes.
RestoreState(state) ==
    LET selectedNode == getSelectedImage
        selectedId == IF selectedNode # NoNode
                      THEN NodeOf(selectedNode).imageId ELSE NoId
        newLayer == restoredLayer(state, nextNodeId)
        restoredNode == IF selectedId # NoId THEN findImageById(newLayer, selectedId)
                        ELSE NoNode
    IN  /\ layer' = newLayer
        /\ nextNodeId' = nextNodeId + Len(newLayer)
        /\ selected' = restoredNode
        /\ gesture' = NoGesture

(***************************************************************************)
(* Undo and redo.                                                          *)
(***************************************************************************)
\* A push that never shifts the oldest snapshot out.
pushedUnbounded(stack, L) == Append(stack, captureState(L))

\* The undo stack after pushUndo() in a scene L: the snapshot is appended and the
\* oldest entries are shifted out while more than MAX_UNDO_LEVELS are held.
pushed(stack, L) ==
    LET s == Append(stack, captureState(L))
    IN  IF Len(s) > MAX_UNDO_LEVELS
        THEN SubSeq(s, Len(s) - MAX_UNDO_LEVELS + 1, Len(s))
        ELSE s

\* pushUndo()
pushUndo ==
    /\ undoStack' = pushed(undoStack, layer)
    /\ redoStack' = <<>>

\* An undo() that restores the top of the undo stack and leaves it there.
undoWithoutPop ==
    IF undoStack = <<>>
    THEN UNCHANGED <<layer, selected, undoStack, redoStack, nextNodeId, gesture>>
    ELSE /\ redoStack' = Append(redoStack, captureState(layer))
         /\ undoStack' = undoStack
         /\ RestoreState(Last(undoStack))

\* undo(): nothing when the undo stack is empty.
undo ==
    IF undoStack = <<>>
    THEN UNCHANGED <<layer, selected, undoStack, redoStack, nextNodeId, gesture>>
    ELSE /\ redoStack' = Append(redoStack, captureState(layer))
         /\ undoStack' = Front(undoStack)
         /\ RestoreState(Last(undoStack))

\* redo(): nothing when the redo stack is empty.
redo ==
    IF redoStack = <<>>
    THEN UNCHANGED <<layer, selected, undoStack, redoStack, nextNodeId, gesture>>
    ELSE /\ undoStack' = Append(undoStack, captureState(layer))
         /\ redoStack' = Front(redoStack)
         /\ RestoreState(Last(redoStack))

(***************************************************************************)
(* Image loading.                                                          *)
(***************************************************************************)
\* Math.min(stage.width(), stage.height()) * 0.6
maxDim == (Min2(StageWidth, StageHeight) * 6) \div 10

\* The scale addImage gives an image of the size w x h (in hundredths).
initialScale(w, h) ==
    IF w > maxDim \/ h > maxDim
    THEN (maxDim * ScaleOne) \div Max2(w, h)
    ELSE ScaleOne

\* A selection change rebuilds the crop handles and re-attaches the transformer:
\* a crop-handle or resize gesture in progress ends, a drag of an image goes on.
gestureAfterSelect == IF gesture.kind \in {"crop", "resize"} THEN NoGesture ELSE gesture

\* img.onload of addImage(src, fileName), for a decoded image src.
addImage(src) ==
    LET scale == initialScale(src.width, src.height)
        center == getViewportCenter
        konvaImage ==
            [nid |-> nextNodeId, imageId |-> nextImageId, imageRef |-> src.ref,
             originalWidth |-> src.width, originalHeight |-> src.height,
             x |-> center.x + imageCount * 30, y |-> center.y + imageCount * 30,
             scaleX |-> scale, scaleY |-> scale, rotation |-> 0,
             cropBounds |-> ZeroCrop, blendMode |-> "source-over",
             opacity |-> OpacityOne, name |-> src.name]
    IN  /\ pushUndo
        /\ layer' = Append(layer, konvaImage)
        /\ selected' = konvaImage.nid
        /\ imageCount' = imageCount + 1
        /\ nextImageId' = nextImageId + 1
        /\ nextNodeId' = nextNodeId + 1
        /\ gesture' = gestureAfterSelect
        /\ UNCHANGED <<nudgeUndoPushed, nudgeUndoTimeout, opacityInput>>

(***************************************************************************)
(* Selection: a click on an image, a click on the empty stage.             *)
(***************************************************************************)
clickImage(nid) ==
    /\ IsLive(nid)
    /\ selected' = nid
    /\ gesture' = gestureAfterSelect
    /\ UNCHANGED <<layer, undoStack, redoStack, imageCount, nextImageId, nextNodeId,
                   nudgeUndoPushed, nudgeUndoTimeout, opacityInput>>

clickStage ==
    /\ selected' = NoNode
    /\ gesture' = gestureAfterSelect
    /\ UNCHANGED <<layer, undoStack, redoStack, imageCount, nextImageId, nextNodeId,
                   nudgeUndoPushed, nudgeUndoTimeout, opacityInput>>

(***************************************************************************)
(* Image transform operations.                                             *)
(***************************************************************************)
\* The layer with the node nid replaced by new; a destroyed node is on no layer, and
\* a change of it changes no scene.
withNode(nid, new) ==
    [i \in DOMAIN layer |-> IF layer[i].nid = nid THEN new ELSE layer[i]]

\* What an operation on the selection leaves alone besides the layer and the stacks.
selectionOpFrame ==
    UNCHANGED <<selected, imageCount, nextImageId, nextNodeId, nudgeUndoPushed,
                nudgeUndoTimeout, opacityInput, gesture>>

programVars ==
    <<layer, selected, undoStack, redoStack, imageCount, nextImageId, nextNodeId,
      nudgeUndoPushed, nudgeUndoTimeout, opacityInput, gesture>>

\* hideContextMenu(), which also runs on any click on the page: the menu is removed,
\* and a destroyed node is held on only while the transformer holds it.
hideContextMenu ==
    /\ contextMenu' = NoNode
    /\ destroyed' = IF selected' # NoNode /\ selected' = destroyed.nid
                    THEN destroyed ELSE NoDestroyed

\* What a handler of this editor that neither saves nor touches the context menu
\* leaves alone (the simpler variant is another program), but for the loadProject()
\* call that waits for its archive; the node of an open menu that the handler
\* destroys stays held by the menu's closure.
pendingFrame ==
    /\ UNCHANGED <<contextMenu, saves, downloads, simple>>
    /\ destroyed' = IF /\ contextMenu # NoNode
                       /\ IsLive(contextMenu)
                       /\ \A i \in DOMAIN layer' : layer'[i].nid # contextMenu
                    THEN NodeOf(contextMenu)
                    ELSE destroyed

\* The same of a handler that is no part of loadProject().
menuFrame == pendingFrame /\ UNCHANGED loading

\* A sideways test without the reduction modulo 180.
isRotatedSidewaysNoWrap(rotation) == rotation > 45 /\ rotation < 135

\* isRotatedSideways(node), from the node's rotation.
isRotatedSideways(rotation) ==
    LET rot == Abs(JsRem(rotation, 180))
    IN  rot > 45 /\ rot < 135

\* A horizontal flip along the source axis, whatever the rotation.
flippedHorizontalSourceAxis(n) == [n EXCEPT !.scaleX = n.scaleX * (-1)]

flippedHorizontal(n) ==
    IF isRotatedSideways(n.rotation)
    THEN [n EXCEPT !.scaleY = n.scaleY * (-1)]
    ELSE [n EXCEPT !.scaleX = n.scaleX * (-1)]

flippedVertical(n) ==
    IF isRotatedSideways(n.rotation)
    THEN [n EXCEPT !.scaleX = n.scaleX * (-1)]
    ELSE [n EXCEPT !.scaleY = n.scaleY * (-1)]

\* A flipHorizontal that takes its snapshot after the flip.
flipHorizontalPushLate ==
    LET node == getSelectedImage
    IN  IF node = NoNode THEN UNCHANGED programVars
        ELSE /\ layer' = withNode(node, flippedHorizontal(NodeOf(node)))
             /\ undoStack' = pushed(undoStack, layer')
             /\ redoStack' = <<>>
             /\ selectionOpFrame

flipHorizontal ==
    LET node == getSelectedImage
    IN  IF node = NoNode THEN UNCHANGED programVars
        ELSE /\ pushUndo
             /\ layer' = withNode(node, flippedHorizontal(NodeOf(node)))
             /\ selectionOpFrame

flipVertical ==
    LET node == getSelectedImage
    IN  IF node = NoNode THEN UNCHANGED programVars
        ELSE /\ pushUndo
             /\ layer' = withNode(node, flippedVertical(NodeOf(node)))
             /\ selectionOpFrame

rotateLeft ==
    LET node == getSelectedImage
    IN  IF node = NoNode THEN UNCHANGED programVars
        ELSE /\ pushUndo
             /\ layer' = withNode(node, [NodeOf(node) EXCEPT !.rotation = @ - 90])
             /\ selectionOpFrame

rotateRight ==
    LET node == getSelectedImage
    IN  IF node = NoNode THEN UNCHANGED programVars
        ELSE /\ pushUndo
             /\ layer' = withNode(node, [NodeOf(node) EXCEPT !.rotation = @ + 90])
             /\ selectionOpFrame

\* A duplicateImage whose clone is put at the place of the node.
duplicateImageInPlace ==
    LET node == getSelectedImage
        clone == [NodeOf(node) EXCEPT !.nid = nextNodeId, !.imageId = nextImageId]
    IN  IF node = NoNode THEN UNCHANGED programVars
        ELSE /\ pushUndo
             /\ layer' = Append(layer, clone)
             /\ selected' = clone.nid
             /\ imageCount' = imageCount + 1
             /\ nextImageId' = nextImageId + 1
             /\ nextNodeId' = nextNodeId + 1
             /\ gesture' = gestureAfterSelect
             /\ UNCHANGED <<nudgeUndoPushed, nudgeUndoTimeout, opacityInput>>

\* A duplicateImage whose clone keeps the id of the node.
duplicateImageSameId ==
    LET node == getSelectedImage
        clone == [NodeOf(node) EXCEPT !.nid = nextNodeId, !.x = @ + 30, !.y = @ + 30]
    IN  IF node = NoNode THEN UNCHANGED programVars
        ELSE /\ pushUndo
             /\ layer' = Append(layer, clone)
             /\ selected' = clone.nid
             /\ imageCount' = imageCount + 1
             /\ nextImageId' = nextImageId + 1
             /\ nextNodeId' = nextNodeId + 1
             /\ gesture' = gestureAfterSelect
             /\ UNCHANGED <<nudgeUndoPushed, nudgeUndoTimeout, opacityInput>>

\* duplicateImage(): the clone copies every attribute of the node, 30 px down and
\* right, with an id of its own; it is added on top and selected.
duplicateImage ==
    LET node == getSelectedImage
        clone == [NodeOf(node) EXCEPT !.nid = nextNodeId, !.imageId = nextImageId,
                                      !.x = @ + 30, !.y = @ + 30]
    IN  IF node = NoNode THEN UNCHANGED programVars
        ELSE /\ pushUndo
             /\ layer' = Append(layer, clone)
             /\ selected' = clone.nid
             /\ imageCount' = imageCount + 1
             /\ nextImageId' = nextImageId + 1
             /\ nextNodeId' = nextNodeId + 1
             /\ gesture' = gestureAfterSelect
             /\ UNCHANGED <<nudgeUndoPushed, nudgeUndoTimeout, opacityInput>>

\* The children without the node nid.
without(L, nid) ==
    LET keep == {i \in DOMAIN L : L[i].nid # nid}
        RECURSIVE pick(_)
        pick(i) == IF i > Len(L) THEN <<>>
                   ELSE IF i \in keep THEN <<L[i]>> \o pick(i + 1) ELSE pick(i + 1)
    IN  pick(1)

\* A moveToTop that swaps the node with the last child.
movedToTopSwapping(L, nid) ==
    IF \E i \in DOMAIN L : L[i].nid = nid
    THEN LET k == CHOOSE i \in DOMAIN L : L[i].nid = nid
         IN  [i \in DOMAIN L |-> IF i = k THEN L[Len(L)]
                                 ELSE IF i = Len(L) THEN L[k] ELSE L[i]]
    ELSE L

\* node.moveToTop(): the node becomes the last child (the transformer and the handles
\* are moved above it afterwards, and are no images).
movedToTop(L, nid) ==
    IF \E i \in DOMAIN L : L[i].nid = nid
    THEN Append(without(L, nid), L[CHOOSE i \in DOMAIN L : L[i].nid = nid])
    ELSE L

\* node.moveToBottom(): the node becomes the first child.
movedToBottom(L, nid) ==
    IF \E i \in DOMAIN L : L[i].nid = nid
    THEN <<L[CHOOSE i \in DOMAIN L : L[i].nid = nid]>> \o without(L, nid)
    ELSE L

bringToTop ==
    LET node == getSelectedImage
    IN  IF node = NoNode THEN UNCHANGED programVars
        ELSE /\ pushUndo
             /\ layer' = movedToTop(layer, node)
             /\ selectionOpFrame

sendToBottom ==
    LET node == getSelectedImage
    IN  IF node = NoNode THEN UNCHANGED programVars
        ELSE /\ pushUndo
             /\ layer' = movedToBottom(layer, node)
             /\ selectionOpFrame

\* The dblclick handler of an image: the image is brought to the top.
dblclickImage(nid) ==
    /\ IsLive(nid)
    /\ pushUndo
    /\ layer' = movedToTop(layer, nid)
    /\ selectionOpFrame

\* deleteSelected(): the node is destroyed, which also ends a drag of it; the crop
\* handles are removed.
\* A deleteSelected that takes its snapshot before it looks for the selection.
deleteSelectedPushFirst ==
    LET node == getSelectedImage
    IN  /\ pushUndo
        /\ layer' = without(layer, node)
        /\ selected' = NoNode
        /\ gesture' = gestureAfterSelect
        /\ UNCHANGED <<imageCount, nextImageId, nextNodeId, nudgeUndoPushed,
                       nudgeUndoTimeout, opacityInput>>

deleteSelected ==
    LET node == getSelectedImage
    IN  IF node = NoNode THEN UNCHANGED programVars
        ELSE /\ pushUndo
             /\ layer' = without(layer, node)
             /\ selected' = NoNode
             /\ gesture' = IF gesture.kind = "drag" /\ gesture.node # node
                           THEN gesture ELSE NoGesture
             /\ UNCHANGED <<imageCount, nextImageId, nextNodeId, nudgeUndoPushed,
                            nudgeUndoTimeout, opacityInput>>

(***************************************************************************)
(* Blend modes.                                                            *)
(***************************************************************************)
blendModes == <<"source-over", "screen", "multiply", "lighten", "darken", "overlay",
                "soft-light", "difference">>

setBlendMode(mode) ==
    LET node == getSelectedImage
    IN  IF node = NoNode THEN UNCHANGED programVars
        ELSE /\ pushUndo
             /\ layer' = withNode(node, [NodeOf(node) EXCEPT !.blendMode = mode])
             /\ selectionOpFrame

\* blendModes.findIndex(m => m.value === mode), counted from 0; -1 when absent.
blendIndex(mode) ==
    LET hits == {i \in DOMAIN blendModes : blendModes[i] = mode}
    IN  IF hits = {} THEN -1 ELSE (CHOOSE i \in hits : TRUE) - 1

cycleBlendMode ==
    LET node == getSelectedImage
        nextIndex == (blendIndex(NodeOf(node).blendMode) + 1) % Len(blendModes)
    IN  IF node = NoNode THEN UNCHANGED programVars
        ELSE setBlendMode(blendModes[nextIndex + 1])

(***************************************************************************)
(* Opacity: the number keys.                                               *)
(***************************************************************************)
\* The percentage stored without the clamp.
unclampedOpacity(percent) == percent

\* Math.max(0, Math.min(100, percent)) / 100, in hundredths.
clampedOpacity(percent) == Max2(0, Min2(100, percent))

\* The layer and the stacks after setOpacity(percent): nothing without a selection.
setOpacity(percent) ==
    LET node == getSelectedImage
    IN  IF node = NoNode THEN UNCHANGED <<layer, undoStack, redoStack>>
        ELSE /\ pushUndo
             /\ layer' = withNode(node, [NodeOf(node) EXCEPT
                                            !.opacity = clampedOpacity(percent)])

NoOpacityInput == [firstDigit |-> NoDigit, timeout |-> FALSE]

\* handleOpacityKey(digit), which the keydown handler calls only with a selection.
handleOpacityKey(digit) ==
    LET node == getSelectedImage
    IN  IF node = NoNode THEN UNCHANGED programVars
        ELSE /\ IF opacityInput.firstDigit # NoDigit
                THEN /\ setOpacity(opacityInput.firstDigit * 10 + digit)
                     /\ opacityInput' = NoOpacityInput
                ELSE /\ opacityInput' = [firstDigit |-> digit, timeout |-> TRUE]
                     /\ UNCHANGED <<layer, undoStack, redoStack>>
             /\ UNCHANGED <<selected, imageCount, nextImageId, nextNodeId,
                            nudgeUndoPushed, nudgeUndoTimeout, gesture>>

\* A timer callback that sets the digit in tenths, the digit 0 as well.
opacityTimeoutTenths ==
    /\ opacityInput.timeout
    /\ setOpacity(opacityInput.firstDigit * 10)
    /\ opacityInput' = NoOpacityInput
    /\ UNCHANGED <<selected, imageCount, nextImageId, nextNodeId,
                   nudgeUndoPushed, nudgeUndoTimeout, gesture>>

\* The 300 ms timer of handleOpacityKey fires: no second digit came.
opacityTimeout ==
    /\ opacityInput.timeout
    /\ setOpacity(IF opacityInput.firstDigit = 0 THEN 100
                  ELSE opacityInput.firstDigit * 10)
    /\ opacityInput' = NoOpacityInput
    /\ UNCHANGED <<selected, imageCount, nextImageId, nextNodeId,
                   nudgeUndoPushed, nudgeUndoTimeout, gesture>>

(***************************************************************************)
(* Keyboard nudge.                                                         *)
(***************************************************************************)
\* A nudge that pushes a snapshot every time.
nudgePushesAlways == TRUE

\* if (!nudgeUndoPushed): the nudge pushes a snapshot.
nudgePushes == ~nudgeUndoPushed

\* handleNudge(axis, amount) of the keydown handler, for the arrow key
\* key = [axis, amount, snap]: moveAmount is 10 with Ctrl and 1 without, and the
\* position is rounded unless Shift is held.
handleNudge(key) ==
    LET node == getSelectedImage
        n == NodeOf(node)
        current == IF key.axis = "x" THEN n.x ELSE n.y
        newVal == IF key.snap THEN RoundDiv(current + key.amount, 1)
                  ELSE current + key.amount
    IN  IF node = NoNode THEN UNCHANGED programVars
        ELSE /\ IF nudgePushes
                THEN pushUndo
                ELSE UNCHANGED <<undoStack, redoStack>>
             /\ nudgeUndoPushed' = TRUE
             /\ nudgeUndoTimeout' = TRUE
             /\ layer' = withNode(node, IF key.axis = "x" THEN [n EXCEPT !.x = newVal]
                                        ELSE [n EXCEPT !.y = newVal])
             /\ UNCHANGED <<selected, imageCount, nextImageId, nextNodeId,
                            opacityInput, gesture>>

\* The 500 ms timer of handleNudge fires: no nudge came in that time.
nudgeTimeout ==
    /\ nudgeUndoTimeout
    /\ nudgeUndoPushed' = FALSE
    /\ nudgeUndoTimeout' = FALSE
    /\ UNCHANGED <<layer, selected, undoStack, redoStack, imageCount, nextImageId,
                   nextNodeId, opacityInput, gesture>>

(***************************************************************************)
(* Pointer gestures: dragging an image, resizing with the transformer.     *)
(***************************************************************************)
\* The first pointer move of a drag of the image nid: Konva fires dragstart (whose
\* handler pushes the undo snapshot), then moves the node.  No click follows a drag,
\* so the selection stays.
dragStart(nid, d) ==
    /\ IsLive(nid)
    /\ pushUndo
    /\ layer' = withNode(nid, [NodeOf(nid) EXCEPT !.x = @ + d.dx, !.y = @ + d.dy])
    /\ gesture' = [kind |-> "drag", node |-> nid, handle |-> "none", pos |-> 0]
    /\ UNCHANGED <<selected, imageCount, nextImageId, nextNodeId, nudgeUndoPushed,
                   nudgeUndoTimeout, opacityInput>>

\* A further pointer move of the drag.
dragMove(d) ==
    /\ gesture.kind = "drag"
    /\ IsLive(gesture.node)
    /\ layer' = withNode(gesture.node,
                         [NodeOf(gesture.node) EXCEPT !.x = @ + d.dx, !.y = @ + d.dy])
    /\ UNCHANGED <<selected, undoStack, redoStack, imageCount, nextImageId, nextNodeId,
                   nudgeUndoPushed, nudgeUndoTimeout, opacityInput, gesture>>

\* The pointer is released: a drag, a crop-handle drag or a resize ends.
gestureEnd ==
    /\ gesture.kind # "none"
    /\ gesture' = NoGesture
    /\ UNCHANGED <<layer, selected, undoStack, redoStack, imageCount, nextImageId,
                   nextNodeId, nudgeUndoPushed, nudgeUndoTimeout, opacityInput>>

\* transformstart: the pointer goes down on a corner anchor of the transformer.
transformStart ==
    /\ getSelectedImage # NoNode
    /\ IsLive(getSelectedImage)
    /\ pushUndo
    /\ gesture' = [kind |-> "resize", node |-> getSelectedImage, handle |-> "none",
                   pos |-> 0]
    /\ UNCHANGED <<layer, selected, imageCount, nextImageId, nextNodeId,
                   nudgeUndoPushed, nudgeUndoTimeout, opacityInput>>

(***************************************************************************)
(* Crop geometry.  A client rectangle is kept in units of 1/200 px, so the *)
(* half of a width that is a whole number of 1/100 px is exact.            *)
(***************************************************************************)
RectUnit == 2 * ScaleOne

cropWidthOf(n) == n.originalWidth - n.cropBounds.left - n.cropBounds.right

cropHeightOf(n) == n.originalHeight - n.cropBounds.top - n.cropBounds.bottom

\* node.getClientRect({relativeTo: stage}) of a node whose rotation is a multiple of
\* 90 degrees: the node's origin is the centre of its cropped region, so the
\* rectangle is centred on (x, y); a quarter turn exchanges its width and height.
getClientRect(n) ==
    LET w == 2 * cropWidthOf(n) * Abs(n.scaleX)
        h == 2 * cropHeightOf(n) * Abs(n.scaleY)
        sideways == JsRem(n.rotation, 180) # 0
        width == IF sideways THEN h ELSE w
        height == IF sideways THEN w ELSE h
    IN  [x |-> RectUnit * n.x - width \div 2, y |-> RectUnit * n.y - height \div 2,
         width |-> width, height |-> height]

\* A rotation rounded to quarter turns and not reduced to one turn.
snappedRotationUnwrapped(rotation) == RoundDiv(rotation, 90) * 90

\* let rot = ((rotation % 360) + 360) % 360; rot = Math.round(rot / 90) * 90 % 360
snappedRotation(rotation) ==
    LET rot == JsRem(JsRem(rotation, 360) + 360, 360)
    IN  JsRem(RoundDiv(rot, 90) * 90, 360)

\* The table of getSourceEdge for a rotation counted counter-clockwise.
rotationMapsCounterClockwise(rot) ==
    CASE rot = 0 -> [top |-> "top", right |-> "right", bottom |-> "bottom", left |-> "left"]
      [] rot = 90 -> [top |-> "right", right |-> "bottom", bottom |-> "left", left |-> "top"]
      [] rot = 180 -> [top |-> "bottom", right |-> "left", bottom |-> "top", left |-> "right"]
      [] rot = 270 -> [top |-> "left", right |-> "top", bottom |-> "right", left |-> "bottom"]

rotationMaps(rot) ==
    CASE rot = 0 -> [top |-> "top", right |-> "right", bottom |-> "bottom", left |-> "left"]
      [] rot = 90 -> [top |-> "left", right |-> "top", bottom |-> "right", left |-> "bottom"]
      [] rot = 180 -> [top |-> "bottom", right |-> "left", bottom |-> "top", left |-> "right"]
      [] rot = 270 -> [top |-> "right", right |-> "bottom", bottom |-> "left", left |-> "top"]

\* The flip of a source edge: scaleX < 0 exchanges left and right, scaleY < 0
\* exchanges top and bottom.
flippedEdge(edge, scaleX, scaleY) ==
    LET e1 == IF scaleX < 0
              THEN (IF edge = "left" THEN "right"
                    ELSE IF edge = "right" THEN "left" ELSE edge)
              ELSE edge
    IN  IF scaleY < 0
        THEN (IF e1 = "top" THEN "bottom" ELSE IF e1 = "bottom" THEN "top" ELSE e1)
        ELSE e1

getSourceEdge(visualHandle, rotation, scaleX, scaleY) ==
    flippedEdge(rotationMaps(snappedRotation(rotation))[visualHandle], scaleX, scaleY)

\* An inverse table that repeats the table of getSourceEdge.
visualMapsAsRotationMaps(rot) == rotationMaps(rot)

visualMaps(rot) ==
    CASE rot = 0 -> [top |-> "top", right |-> "right", bottom |-> "bottom", left |-> "left"]
      [] rot = 90 -> [top |-> "right", right |-> "bottom", bottom |-> "left", left |-> "top"]
      [] rot = 180 -> [top |-> "bottom", right |-> "left", bottom |-> "top", left |-> "right"]
      [] rot = 270 -> [top |-> "left", right |-> "top", bottom |-> "right", left |-> "bottom"]

\* The visual edge applyCropBounds finds for a source edge: the flips, then the
\* inverse table.
getVisualEdge(sourceEdge, rotation, scaleX, scaleY) ==
    visualMaps(snappedRotation(rotation))[flippedEdge(sourceEdge, scaleX, scaleY)]

oppositeEdge(edge) ==
    CASE edge = "left" -> "right" [] edge = "right" -> "left"
      [] edge = "top" -> "bottom" [] edge = "bottom" -> "top"

\* A crop that leaves the node where it is.
applyCropBoundsNoAnchor(n, cropBounds, sourceEdgeBeingCropped) ==
    IF \/ n.originalWidth - cropBounds.left - cropBounds.right <= 0
       \/ n.originalHeight - cropBounds.top - cropBounds.bottom <= 0
    THEN n
    ELSE [n EXCEPT !.cropBounds = cropBounds]

\* A crop that keeps the top left corner of the rectangle, whatever edge is cropped.
applyCropBoundsTopLeft(n, cropBounds, sourceEdgeBeingCropped) ==
    LET cropped == [n EXCEPT !.cropBounds = cropBounds]
        dx == getClientRect(n).x - getClientRect(cropped).x
        dy == getClientRect(n).y - getClientRect(cropped).y
    IN  IF \/ n.originalWidth - cropBounds.left - cropBounds.right <= 0
           \/ n.originalHeight - cropBounds.top - cropBounds.bottom <= 0
        THEN n
        ELSE [cropped EXCEPT !.x = @ + dx \div RectUnit, !.y = @ + dy \div RectUnit]

\* applyCropBounds(node, cropBounds, sourceEdgeBeingCropped): the node afterwards.
applyCropBounds(n, cropBounds, sourceEdgeBeingCropped) ==
    LET cropWidth == n.originalWidth - cropBounds.left - cropBounds.right
        cropHeight == n.originalHeight - cropBounds.top - cropBounds.bottom
        anchorSourceEdge == oppositeEdge(sourceEdgeBeingCropped)
        rectBefore == getClientRect(n)
        cropped == [n EXCEPT !.cropBounds = cropBounds]
        rectAfter == getClientRect(cropped)
        visualAnchor == getVisualEdge(anchorSourceEdge, n.rotation, n.scaleX, n.scaleY)
        dx == CASE visualAnchor = "left" -> rectBefore.x - rectAfter.x
                [] visualAnchor = "right" ->
                       (rectBefore.x + rectBefore.width) - (rectAfter.x + rectAfter.width)
                [] OTHER -> 0
        dy == CASE visualAnchor = "top" -> rectBefore.y - rectAfter.y
                [] visualAnchor = "bottom" ->
                       (rectBefore.y + rectBefore.height) - (rectAfter.y + rectAfter.height)
                [] OTHER -> 0
    IN  IF cropWidth <= 0 \/ cropHeight <= 0 THEN n
        ELSE [cropped EXCEPT !.x = @ + dx \div RectUnit, !.y = @ + dy \div RectUnit]

\* The coordinate of the centre of the crop handle `position` along its axis, where
\* positionCropHandles(node) puts it: on the middle of that edge of the rectangle.
handleCentre(n, position) ==
    LET rect == getClientRect(n)
    IN  CASE position = "top" -> rect.y
          [] position = "bottom" -> rect.y + rect.height
          [] position = "left" -> rect.x
          [] position = "right" -> rect.x + rect.width

\* A distance measured from the far edge of the rectangle.
visualDeltaOfFarEdge(n, handlePos, visualPosition) ==
    LET rect == getClientRect(n)
    IN  CASE visualPosition = "top" -> rect.y + rect.height - handlePos
          [] visualPosition = "bottom" -> handlePos - rect.y
          [] visualPosition = "left" -> rect.x + rect.width - handlePos
          [] visualPosition = "right" -> handlePos - rect.x

\* The distance the handle was dragged inwards from its edge, as updateCropFromHandle
\* computes it from the centre handlePos of the handle.
visualDeltaOf(n, handlePos, visualPosition) ==
    LET rect == getClientRect(n)
    IN  CASE visualPosition = "top" -> handlePos - rect.y
          [] visualPosition = "bottom" -> rect.y + rect.height - handlePos
          [] visualPosition = "left" -> handlePos - rect.x
          [] visualPosition = "right" -> rect.x + rect.width - handlePos

\* The scale updateCropFromHandle divides by, in units of 1/200 px per source pixel.
handleScale(n, visualPosition) ==
    2 * (IF visualPosition \in {"left", "right"} THEN Abs(n.scaleX) ELSE Abs(n.scaleY))

\* Crop bounds clamped to the source size only, without the minimum size.
newCropOfNoMinSize(n, sourceEdge, sourceDelta) ==
    LET c == n.cropBounds
    IN  CASE sourceEdge = "top" ->
               [c EXCEPT !.top = Max2(0, Min2(n.originalHeight - c.bottom, c.top + sourceDelta))]
          [] sourceEdge = "bottom" ->
               [c EXCEPT !.bottom = Max2(0, Min2(n.originalHeight - c.top, c.bottom + sourceDelta))]
          [] sourceEdge = "left" ->
               [c EXCEPT !.left = Max2(0, Min2(n.originalWidth - c.right, c.left + sourceDelta))]
          [] sourceEdge = "right" ->
               [c EXCEPT !.right = Max2(0, Min2(n.originalWidth - c.left, c.right + sourceDelta))]

\* Crop bounds that are clamped to the minimum size and not to 0.
newCropOfNoFloor(n, sourceEdge, sourceDelta) ==
    LET c == n.cropBounds
    IN  CASE sourceEdge = "top" ->
               [c EXCEPT !.top = Min2(n.originalHeight - c.bottom - minSize, c.top + sourceDelta)]
          [] sourceEdge = "bottom" ->
               [c EXCEPT !.bottom = Min2(n.originalHeight - c.top - minSize, c.bottom + sourceDelta)]
          [] sourceEdge = "left" ->
               [c EXCEPT !.left = Min2(n.originalWidth - c.right - minSize, c.left + sourceDelta)]
          [] sourceEdge = "right" ->
               [c EXCEPT !.right = Min2(n.originalWidth - c.left - minSize, c.right + sourceDelta)]

\* The crop bounds updateCropFromHandle computes: the bound of the source edge is
\* moved by sourceDelta and clamped.
newCropOf(n, sourceEdge, sourceDelta) ==
    LET currentCrop == n.cropBounds
        originalWidth == n.originalWidth
        originalHeight == n.originalHeight
    IN  CASE sourceEdge = "top" ->
               [currentCrop EXCEPT !.top =
                   Max2(0, Min2(originalHeight - currentCrop.bottom - minSize,
                                currentCrop.top + sourceDelta))]
          [] sourceEdge = "bottom" ->
               [currentCrop EXCEPT !.bottom =
                   Max2(0, Min2(originalHeight - currentCrop.top - minSize,
                                currentCrop.bottom + sourceDelta))]
          [] sourceEdge = "left" ->
               [currentCrop EXCEPT !.left =
                   Max2(0, Min2(originalWidth - currentCrop.right - minSize,
                                currentCrop.left + sourceDelta))]
          [] sourceEdge = "right" ->
               [currentCrop EXCEPT !.right =
                   Max2(0, Min2(originalWidth - currentCrop.left - minSize,
                                currentCrop.right + sourceDelta))]

\* A crop update that takes the visual handle for the source edge.
updateCropFromHandleUnmapped(n, handlePos, visualPosition) ==
    LET visualDelta == visualDeltaOf(n, handlePos, visualPosition)
        sourceDelta == visualDelta \div handleScale(n, visualPosition)
    IN  applyCropBounds(n, newCropOf(n, visualPosition, sourceDelta), visualPosition)

\* updateCropFromHandle(node, handle, visualPosition): the node afterwards.
updateCropFromHandle(n, handlePos, visualPosition) ==
    LET sourceEdge == getSourceEdge(visualPosition, n.rotation, n.scaleX, n.scaleY)
        visualDelta == visualDeltaOf(n, handlePos, visualPosition)
        sourceDelta == visualDelta \div handleScale(n, visualPosition)
    IN  applyCropBounds(n, newCropOf(n, sourceEdge, sourceDelta), sourceEdge)

\* The divisions of a crop update are exact for the handle position handlePos.
cropExact(n, handlePos, visualPosition) ==
    LET after == updateCropFromHandle(n, handlePos, visualPosition)
    IN  /\ JsRem(n.rotation, 90) = 0
        /\ visualDeltaOf(n, handlePos, visualPosition) % handleScale(n, visualPosition) = 0
        /\ (getClientRect(after).width - getClientRect(n).width) % (2 * RectUnit) = 0
        /\ (getClientRect(after).height - getClientRect(n).height) % (2 * RectUnit) = 0

\* The first pointer move of a drag of the crop handle `position` of the selected
\* node, by `move` source pixels along the handle's axis: dragstart pushes the undo
\* snapshot, dragmove updates the crop.
cropDragStart(position, move) ==
    LET node == getSelectedImage
        n == NodeOf(node)
        handlePos == handleCentre(n, position) + move * handleScale(n, position)
    IN  /\ node # NoNode
        /\ IsLive(node)
        /\ cropExact(n, handlePos, position)
        /\ pushUndo
        /\ layer' = withNode(node, updateCropFromHandle(n, handlePos, position))
        /\ gesture' = [kind |-> "crop", node |-> node, handle |-> position,
                       pos |-> handlePos]
        /\ UNCHANGED <<selected, imageCount, nextImageId, nextNodeId, nudgeUndoPushed,
                       nudgeUndoTimeout, opacityInput>>

\* A further pointer move of the crop-handle drag: the dragmove handler updates the
\* crop when the handle's node is still the selected one.
cropDragMove(move) ==
    LET node == getSelectedImage
        n == NodeOf(node)
        handlePos == gesture.pos + move * handleScale(n, gesture.handle)
    IN  /\ gesture.kind = "crop"
        /\ node # NoNode
        /\ IsLive(node)
        /\ node = gesture.node
        /\ cropExact(n, handlePos, gesture.handle)
        /\ layer' = withNode(node, updateCropFromHandle(n, handlePos, gesture.handle))
        /\ gesture' = [gesture EXCEPT !.pos = handlePos]
        /\ UNCHANGED <<selected, undoStack, redoStack, imageCount, nextImageId,
                       nextNodeId, nudgeUndoPushed, nudgeUndoTimeout, opacityInput>>

\* resetCrop()
resetCrop ==
    LET node == getSelectedImage
    IN  IF node = NoNode THEN UNCHANGED programVars
        ELSE /\ pushUndo
             /\ layer' = withNode(node, [NodeOf(node) EXCEPT !.cropBounds = ZeroCrop])
             /\ selectionOpFrame

\* A pointer move of a resize by the factor f (in hundredths).  The transformer keeps
\* the ratio: both scales change by f; its boundBoxFunc refuses a box narrower or
\* lower than 20 px; the corner opposite to the dragged (bottom right) anchor stays.
transform(f) ==
    LET n == NodeOf(gesture.node)
        scaled == [n EXCEPT !.scaleX = (@ * f) \div ScaleOne,
                            !.scaleY = (@ * f) \div ScaleOne]
        oldBox == getClientRect(n)
        newBox == getClientRect(scaled)
        refused == newBox.width < 20 * RectUnit \/ newBox.height < 20 * RectUnit
        resized == [scaled EXCEPT !.x = @ + (newBox.width - oldBox.width) \div (2 * RectUnit),
                                  !.y = @ + (newBox.height - oldBox.height) \div (2 * RectUnit)]
    IN  /\ gesture.kind = "resize"
        /\ IsLive(gesture.node)
        /\ (n.scaleX * f) % ScaleOne = 0
        /\ (n.scaleY * f) % ScaleOne = 0
        /\ (newBox.width - oldBox.width) % (2 * RectUnit) = 0
        /\ (newBox.height - oldBox.height) % (2 * RectUnit) = 0
        /\ layer' = withNode(gesture.node, IF refused THEN n ELSE resized)
        /\ UNCHANGED <<selected, undoStack, redoStack, imageCount, nextImageId, nextNodeId,
                       nudgeUndoPushed, nudgeUndoTimeout, opacityInput, gesture>>

(***************************************************************************)
(* Project load: the archive is merged into the scene.                     *)
(***************************************************************************)
\* The fields of an image of project.json that version-1 archives lack.
OptionalFields == {"id", "cropBounds", "blendMode", "opacity", "name", "zIndex"}

\* `image-${i}`
imageName(i) == "image-" \o ToString(i)

\* An entry whose name is always the default one.
imageFromDataRenaming(imgData, i, generatedId) ==
    [id |-> IF "id" \in imgData.absent \/ imgData.id = NoId
            THEN generatedId ELSE imgData.id,
     imageRef |-> imgData.imageRef,
     originalWidth |-> imgData.originalWidth, originalHeight |-> imgData.originalHeight,
     x |-> imgData.x, y |-> imgData.y,
     scaleX |-> imgData.scaleX, scaleY |-> imgData.scaleY,
     rotation |-> imgData.rotation,
     cropBounds |-> IF "cropBounds" \in imgData.absent THEN ZeroCrop
                    ELSE imgData.cropBounds,
     blendMode |-> IF "blendMode" \in imgData.absent \/ imgData.blendMode = ""
                   THEN "source-over" ELSE imgData.blendMode,
     opacity |-> IF "opacity" \in imgData.absent THEN OpacityOne ELSE imgData.opacity,
     name |-> imageName(i),
     zIndex |-> IF "zIndex" \in imgData.absent THEN i ELSE imgData.zIndex]

\* An entry whose opacity is defaulted with ||, as its blend mode is.
imageFromDataOpacityOr(imgData, i, generatedId) ==
    [id |-> IF "id" \in imgData.absent \/ imgData.id = NoId
            THEN generatedId ELSE imgData.id,
     imageRef |-> imgData.imageRef,
     originalWidth |-> imgData.originalWidth, originalHeight |-> imgData.originalHeight,
     x |-> imgData.x, y |-> imgData.y,
     scaleX |-> imgData.scaleX, scaleY |-> imgData.scaleY,
     rotation |-> imgData.rotation,
     cropBounds |-> IF "cropBounds" \in imgData.absent THEN ZeroCrop
                    ELSE imgData.cropBounds,
     blendMode |-> IF "blendMode" \in imgData.absent \/ imgData.blendMode = ""
                   THEN "source-over" ELSE imgData.blendMode,
     opacity |-> IF "opacity" \in imgData.absent \/ imgData.opacity = 0
                 THEN OpacityOne ELSE imgData.opacity,
     name |-> IF "name" \in imgData.absent \/ imgData.name = ""
              THEN imageName(i) ELSE imgData.name,
     zIndex |-> IF "zIndex" \in imgData.absent THEN i ELSE imgData.zIndex]

\* The entry deserializeStateFromZip pushes for the image imgData at the array index
\* i of project.json (counted from 0): `absent` names the fields the entry lacks; a
\* field read with || is defaulted when it is absent or falsy (no id, an empty
\* string), a field compared with undefined only when it is absent.  The archives of
\* the specifications all give originalWidth and originalHeight.
imageFromData(imgData, i, generatedId) ==
    [id |-> IF "id" \in imgData.absent \/ imgData.id = NoId
            THEN generatedId ELSE imgData.id,
     imageRef |-> imgData.imageRef,
     originalWidth |-> imgData.originalWidth, originalHeight |-> imgData.originalHeight,
     x |-> imgData.x, y |-> imgData.y,
     scaleX |-> imgData.scaleX, scaleY |-> imgData.scaleY,
     rotation |-> imgData.rotation,
     cropBounds |-> IF "cropBounds" \in imgData.absent THEN ZeroCrop
                    ELSE imgData.cropBounds,
     blendMode |-> IF "blendMode" \in imgData.absent \/ imgData.blendMode = ""
                   THEN "source-over" ELSE imgData.blendMode,
     opacity |-> IF "opacity" \in imgData.absent THEN OpacityOne ELSE imgData.opacity,
     name |-> IF "name" \in imgData.absent \/ imgData.name = ""
              THEN imageName(i) ELSE imgData.name,
     zIndex |-> IF "zIndex" \in imgData.absent THEN i ELSE imgData.zIndex]

\* The number of ids deserializeStateFromZip generates for an archive.
generatedIds(archive) ==
    Cardinality({j \in DOMAIN archive :
                    /\ archive[j].present
                    /\ ("id" \in archive[j].absent \/ archive[j].id = NoId)})

\* deserializeStateFromZip(file).images for an archive whose project.json holds the
\* entries `archive`: an entry whose image file is missing is skipped with a warning.
RECURSIVE deserializeStateFromZip(_)
deserializeStateFromZip(archive) ==
    IF archive = <<>> THEN <<>>
    ELSE LET imgData == Last(archive)
             rest == deserializeStateFromZip(Front(archive))
         IN  IF ~imgData.present THEN rest
             ELSE Append(rest, imageFromData(imgData, Len(archive) - 1,
                                             nextImageId + generatedIds(Front(archive))))

SetMin(S) == CHOOSE a \in S : \A b \in S : a <= b

SetMax(S) == CHOOSE a \in S : \A b \in S : a >= b

\* A recentring that keeps the ids stored in the archive.
recentredKeepingIds(loaded, firstId) ==
    LET xs == {loaded[i].x : i \in DOMAIN loaded}
        ys == {loaded[i].y : i \in DOMAIN loaded}
        savedCenterX == (SetMin(xs) + SetMax(xs)) \div 2
        savedCenterY == (SetMin(ys) + SetMax(ys)) \div 2
        offsetX == getViewportCenter.x - savedCenterX
        offsetY == getViewportCenter.y - savedCenterY
    IN  [i \in 1..Len(loaded) |->
            [loaded[i] EXCEPT !.x = @ + offsetX, !.y = @ + offsetY]]

\* The loaded images moved so that the centre of their positions is the viewport
\* centre, each with a new id (the ids from firstId on).
recentred(loaded, firstId) ==
    LET xs == {loaded[i].x : i \in DOMAIN loaded}
        ys == {loaded[i].y : i \in DOMAIN loaded}
        savedCenterX == (SetMin(xs) + SetMax(xs)) \div 2
        savedCenterY == (SetMin(ys) + SetMax(ys)) \div 2
        offsetX == getViewportCenter.x - savedCenterX
        offsetY == getViewportCenter.y - savedCenterY
    IN  [i \in 1..Len(loaded) |->
            [loaded[i] EXCEPT !.x = @ + offsetX, !.y = @ + offsetY,
                              !.id = firstId + i - 1]]

\* A merge that leaves the loaded images the zIndex stored in the archive.
mergedStateKeepingZIndex(currentState, loadedImages) == currentState \o loadedImages

\* The state loadProject restores: the current images, then the loaded ones with
\* zIndex above them.
mergedState(currentState, loadedImages) ==
    LET maxCurrentZIndex ==
            IF Len(currentState) > 0
            THEN SetMax({currentState[i].zIndex : i \in DOMAIN currentState})
            ELSE -1
    IN  currentState \o
        [i \in 1..Len(loadedImages) |->
            [loadedImages[i] EXCEPT !.zIndex = maxCurrentZIndex + 1 + (i - 1)]]

\* A .montage file: whether JSZip can unpack it, what its project.json is ("ok",
\* "missing" or "unparsable"), and the images project.json lists, each with whether
\* its file is in the archive (present) and whether the browser can decode it.
ProjectFile(images) ==
    [kind |-> "montage", unpacks |-> TRUE, project |-> "ok", images |-> images,
     src |-> <<>>, converts |-> TRUE, decodes |-> TRUE]

\* deserializeStateFromZip(file) throws: JSZip.loadAsync rejects, project.json is
\* missing, JSON.parse throws, or an image of the archive fails to decode.
deserializeThrows(file) ==
    \/ ~file.unpacks
    \/ file.project # "ok"
    \/ \E i \in DOMAIN file.images : file.images[i].present /\ ~file.images[i].decodes

\* A loadProject that pushes the undo snapshot before it reads the archive.
loadProjectPushFirst(file) ==
    LET loadedState == deserializeStateFromZip(file.images)
        loadedImages == recentred(loadedState, nextImageId + generatedIds(file.images))
    IN  IF deserializeThrows(file)
        THEN /\ pushUndo
             /\ alerts' = alerts + 1
             /\ UNCHANGED <<layer, selected, imageCount, nextImageId, nextNodeId,
                            nudgeUndoPushed, nudgeUndoTimeout, opacityInput, gesture>>
        ELSE /\ pushUndo
             /\ RestoreState(mergedState(captureState(layer), loadedImages))
             /\ nextImageId' = nextImageId + generatedIds(file.images) + Len(loadedState)
             /\ imageCount' = imageCount + Len(loadedState)
             /\ UNCHANGED <<nudgeUndoPushed, nudgeUndoTimeout, opacityInput, alerts>>

\* No loadProject() call is waiting for its archive.
NoLoad == [file |-> <<>>, state |-> <<>>]

\* A loadProject that merges the loaded images into the scene as it was when it was
\* called.
loadProjectResumedStale(load) ==
    LET loadedState == deserializeStateFromZip(load.file.images)
        loadedImages == recentred(loadedState,
                                  nextImageId + generatedIds(load.file.images))
    IN  /\ loading' = NoLoad
        /\ IF deserializeThrows(load.file)
           THEN alerts' = alerts + 1 /\ UNCHANGED programVars
           ELSE
             /\ undoStack' = Append(undoStack, load.state)
             /\ redoStack' = <<>>
             /\ RestoreState(mergedState(load.state, loadedImages))
             /\ nextImageId' = nextImageId + generatedIds(load.file.images)
                                   + Len(loadedState)
             /\ imageCount' = imageCount + Len(loadedState)
             /\ UNCHANGED <<nudgeUndoPushed, nudgeUndoTimeout, opacityInput, alerts>>

\* loadProject(file): the catch block shows an alert and changes nothing; otherwise
\* the undo snapshot is pushed and the loaded images are merged into the scene.
loadProject(file) ==
    LET loadedState == deserializeStateFromZip(file.images)
        loadedImages == recentred(loadedState, nextImageId + generatedIds(file.images))
    IN  IF deserializeThrows(file)
        THEN alerts' = alerts + 1 /\ UNCHANGED programVars
        ELSE /\ pushUndo
             /\ RestoreState(mergedState(captureState(layer), loadedImages))
             /\ nextImageId' = nextImageId + generatedIds(file.images) + Len(loadedState)
             /\ imageCount' = imageCount + Len(loadedState)
             /\ UNCHANGED <<nudgeUndoPushed, nudgeUndoTimeout, opacityInput, alerts>>

\* loadProject(file) up to its await: the archive is being read, the scene is as it
\* was (load.state records it, the program keeps no copy).
loadProjectCalled(file) ==
    /\ loading' = [file |-> file, state |-> captureState(layer)]
    /\ UNCHANGED <<programVars, alerts>>

\* loadProject(file) from its await on, run when the archive has been read: the
\* snapshot is pushed and the scene captured then.
loadProjectResumed(load) ==
    /\ loadProject(load.file)
    /\ loading' = NoLoad

\* serializeStateToZip(state): the images of project.json, each file in the archive.
serializeStateToZip(state) ==
    [i \in 1..Len(state) |->
        [id |-> state[i].id, imageRef |-> state[i].imageRef,
         originalWidth |-> state[i].originalWidth,
         originalHeight |-> state[i].originalHeight,
         x |-> state[i].x, y |-> state[i].y,
         scaleX |-> state[i].scaleX, scaleY |-> state[i].scaleY,
         rotation |-> state[i].rotation, cropBounds |-> state[i].cropBounds,
         blendMode |-> state[i].blendMode, opacity |-> state[i].opacity,
         name |-> state[i].name, zIndex |-> state[i].zIndex,
         filename |-> ToString(i - 1) \o ".png", absent |-> {},
         present |-> TRUE, decodes |-> TRUE]]

(***************************************************************************)
(* handleFiles(files): the files are handled one after the other; between  *)
(* two of them the handler awaits, and other events are handled.           *)
(***************************************************************************)
\* An image file with the decoded image src; a HEIC file is converted first.
ImageFile(kind, src, converts, decodes) ==
    [kind |-> kind, unpacks |-> TRUE, project |-> "ok", images |-> <<>>,
     src |-> src, converts |-> converts, decodes |-> decodes]

\* handleFiles(files) is called: the loop starts.
dropFiles(files) ==
    /\ batch = <<>>
    /\ batch' = files
    /\ UNCHANGED <<programVars, alerts>>

\* One turn of the loop of handleFiles, with what the turn starts: loadProject for
\* a .montage file; for a HEIC file the conversion, whose exception is caught and
\* shown, and then addImage; for an image file addImage, whose img.onload runs
\* only if the image decodes.
handleNextFile ==
    LET file == Head(batch)
    IN  /\ batch # <<>>
        /\ batch' = Tail(batch)
        /\ CASE file.kind = "montage" -> loadProject(file)
              [] file.kind = "heic" /\ ~file.converts ->
                    alerts' = alerts + 1 /\ UNCHANGED programVars
              [] file.kind \in {"heic", "image"} /\ file.converts /\ file.decodes ->
                    addImage(file.src) /\ UNCHANGED alerts
              [] OTHER -> UNCHANGED <<programVars, alerts>>

(***************************************************************************)
(* The simpler variant of the editor (src/unnamed/part_001): no image ids, *)
(* no undo.  Its state is the record s = [layer, selected, imageCount,     *)
(* nextNodeId, alerts]; each handler gives the record afterwards.          *)
(***************************************************************************)
NoSimple ==
    [layer |-> <<>>, selected |-> NoNode, imageCount |-> 0, nextNodeId |-> 1,
     alerts |-> 0]

\* The record with the selected node replaced by new.
simpleWith(s, new) ==
    [s EXCEPT !.layer = [i \in DOMAIN s.layer |->
                            IF s.layer[i].nid = s.selected THEN new ELSE s.layer[i]]]

\* img.onload of addImage(src, fileName).
simpleAddImage(s, src) ==
    LET scale == initialScale(src.width, src.height)
        center == getViewportCenter
        konvaImage ==
            [nid |-> s.nextNodeId, imageId |-> NoId, imageRef |-> src.ref,
             originalWidth |-> src.width, originalHeight |-> src.height,
             x |-> center.x + s.imageCount * 30, y |-> center.y + s.imageCount * 30,
             scaleX |-> scale, scaleY |-> scale, rotation |-> 0,
             cropBounds |-> ZeroCrop, blendMode |-> "source-over",
             opacity |-> OpacityOne, name |-> src.name]
    IN  [s EXCEPT !.layer = Append(s.layer, konvaImage), !.selected = konvaImage.nid,
                  !.imageCount = @ + 1, !.nextNodeId = @ + 1]

\* The click handler of the image that is the i-th child.
simpleClickImage(s, i) == [s EXCEPT !.selected = s.layer[i].nid]

\* flipHorizontal(): node.scaleX(node.scaleX() * -1), whatever the rotation.
simpleFlipHorizontal(s) ==
    IF s.selected = NoNode THEN s
    ELSE LET n == CHOOSE m \in Range(s.layer) : m.nid = s.selected
         IN  simpleWith(s, [n EXCEPT !.scaleX = n.scaleX * (-1)])

\* flipVertical(): node.scaleY(node.scaleY() * -1), whatever the rotation.
simpleFlipVertical(s) ==
    IF s.selected = NoNode THEN s
    ELSE LET n == CHOOSE m \in Range(s.layer) : m.nid = s.selected
         IN  simpleWith(s, [n EXCEPT !.scaleY = n.scaleY * (-1)])

\* rotateLeft, rotateRight, duplicateImage, bringToTop, sendToBottom, deleteSelected,
\* setBlendMode(arg), setOpacity(arg) and the arrow key arg of the keydown handler:
\* nothing without a selection.
simpleSelectionOp(s, name, arg) ==
    IF s.selected = NoNode THEN s
    ELSE LET n == CHOOSE m \in Range(s.layer) : m.nid = s.selected
             clone == [n EXCEPT !.nid = s.nextNodeId, !.x = @ + 30, !.y = @ + 30]
             current == IF arg.axis = "x" THEN n.x ELSE n.y
             newVal == IF arg.snap THEN RoundDiv(current + arg.amount, 1)
                       ELSE current + arg.amount
         IN  CASE name = "rotateLeft" -> simpleWith(s, [n EXCEPT !.rotation = @ - 90])
               [] name = "rotateRight" -> simpleWith(s, [n EXCEPT !.rotation = @ + 90])
               [] name = "duplicateImage" ->
                    [s EXCEPT !.layer = Append(s.layer, clone), !.selected = clone.nid,
                              !.imageCount = @ + 1, !.nextNodeId = @ + 1]
               [] name = "bringToTop" ->
                    [s EXCEPT !.layer = movedToTop(s.layer, s.selected)]
               [] name = "sendToBottom" ->
                    [s EXCEPT !.layer = movedToBottom(s.layer, s.selected)]
               [] name = "deleteSelected" ->
                    [s EXCEPT !.layer = without(s.layer, s.selected),
                              !.selected = NoNode]
               [] name = "setBlendMode" -> simpleWith(s, [n EXCEPT !.blendMode = arg])
               [] name = "setOpacity" ->
                    simpleWith(s, [n EXCEPT !.opacity = Max2(0, Min2(100, arg))])
               [] name = "nudge" ->
                    simpleWith(s, IF arg.axis = "x" THEN [n EXCEPT !.x = newVal]
                                  ELSE [n EXCEPT !.y = newVal])

\* loadProject(file): the offset is taken from all the entries of project.json, the
\* images are added one by one as they decode, an entry without its file is skipped,
\* and an image that fails to decode ends the load with an alert and leaves the
\* images added before it; imageCount grows by the number of entries.
simpleLoadProject(s, file) ==
    LET images == file.images
        xs == {images[i].x : i \in DOMAIN images}
        ys == {images[i].y : i \in DOMAIN images}
        offsetX == getViewportCenter.x - (SetMin(xs) + SetMax(xs)) \div 2
        offsetY == getViewportCenter.y - (SetMin(ys) + SetMax(ys)) \div 2
        konvaImage(i, nid) ==
            LET imgData == imageFromData(images[i], i - 1, NoId)
            IN  [nid |-> nid, imageId |-> NoId, imageRef |-> imgData.imageRef,
                 originalWidth |-> imgData.originalWidth,
                 originalHeight |-> imgData.originalHeight,
                 x |-> imgData.x + offsetX, y |-> imgData.y + offsetY,
                 scaleX |-> imgData.scaleX, scaleY |-> imgData.scaleY,
                 rotation |-> imgData.rotation, cropBounds |-> imgData.cropBounds,
                 blendMode |-> imgData.blendMode, opacity |-> imgData.opacity,
                 name |-> imgData.name]
        RECURSIVE after(_, _)
        after(t, i) ==
            IF i > Len(images) THEN [t EXCEPT !.imageCount = @ + Len(images)]
            ELSE IF ~images[i].present THEN after(t, i + 1)
            ELSE IF ~images[i].decodes THEN [t EXCEPT !.alerts = @ + 1]
            ELSE after([t EXCEPT !.layer = Append(t.layer, konvaImage(i, t.nextNodeId)),
                                 !.nextNodeId = @ + 1], i + 1)
    IN  IF ~file.unpacks \/ file.project # "ok"
        THEN [s EXCEPT !.alerts = @ + 1]
        ELSE after(s, 1)

(***************************************************************************)
(* History variables.  They record what the user did and what the scene    *)
(* was, and are read by no handler.                                        *)
(***************************************************************************)
\* The entity fields of a node, as the user sees them (no Konva node identity).
Entity(n) ==
    [id |-> n.imageId, x |-> n.x, y |-> n.y, scaleX |-> n.scaleX, scaleY |-> n.scaleY,
     rotation |-> n.rotation, cropBounds |-> n.cropBounds, blendMode |-> n.blendMode,
     opacity |-> n.opacity, name |-> n.name, originalWidth |-> n.originalWidth,
     originalHeight |-> n.originalHeight]

\* The scene: the entities in z-order, back to front.
SceneOf(L) == [i \in 1..Len(L) |-> Entity(L[i])]

NoAction ==
    [name |-> "none", kind |-> "other", before |-> <<>>, pure |-> FALSE, arg |-> 0]

NoRun ==
    [started |-> FALSE, count |-> 0, start |-> <<>>, top |-> <<>>, pushes |-> 0,
     pure |-> FALSE]

TopOf(stack) == IF stack = <<>> THEN <<>> ELSE <<Last(stack)>>

\* A user action that is no keyboard nudge.  kind is "op" for an undoable operation,
\* "cont" for a further step of the gesture the previous action belongs to (the scene
\* before it is the scene before the gesture), "undo", "redo" or "other".
\* arg is what the user gave the action: the digit pressed, the file dropped.
TrackWith(name, kind, arg) ==
    /\ hist' = <<hist[2],
                 [name |-> name, kind |-> kind,
                  before |-> IF kind = "cont" THEN hist[2].before ELSE SceneOf(layer),
                  pure |-> FALSE, arg |-> arg]>>
    /\ run' = [run EXCEPT !.pure = FALSE]
    /\ steps' = steps + 1
    /\ digitFor' = IF opacityInput'.firstDigit = NoDigit THEN NoId
                   ELSE IF opacityInput.firstDigit = NoDigit /\ selected # NoNode
                   THEN NodeOf(selected).imageId
                   ELSE digitFor

Track(name, kind) == TrackWith(name, kind, 0)

\* A keyboard nudge.  A run of nudges starts with a nudge that finds no 500 ms timer
\* pending and goes on with every nudge that finds one pending; the nudge continues
\* the gesture when the previous user action was a nudge of the same run.
TrackNudge(arg) ==
    LET pushedNow == IF undoStack' # undoStack THEN 1 ELSE 0
        continues == nudgeUndoTimeout /\ hist[2].name = "nudge"
        newRun == IF nudgeUndoTimeout
                  THEN [run EXCEPT !.pushes = @ + pushedNow]
                  ELSE [started |-> TRUE, count |-> run.count + 1,
                        start |-> SceneOf(layer), top |-> TopOf(undoStack'),
                        pushes |-> pushedNow, pure |-> TRUE]
    IN  /\ run' = newRun
        /\ hist' = <<hist[2],
                     [name |-> "nudge", kind |-> IF continues THEN "cont" ELSE "op",
                      before |-> IF continues THEN hist[2].before ELSE SceneOf(layer),
                      pure |-> newRun.pure, arg |-> arg]>>
        /\ steps' = steps + 1
        /\ UNCHANGED digitFor

\* A timer that fires is no user action.
TrackTimer ==
    /\ UNCHANGED <<hist, run, steps>>
    /\ digitFor' = IF opacityInput'.firstDigit = NoDigit THEN NoId ELSE digitFor

(***************************************************************************)
(* The initial state: the editor as constructed, with an empty scene.      *)
(***************************************************************************)
NoProbe == [rotation |-> 0, scaleX |-> ScaleOne, scaleY |-> ScaleOne, edge |-> "none",
            sourceEdge |-> "none", visualEdge |-> "none", order |-> "none"]

Init ==
    /\ layer = <<>>
    /\ selected = NoNode
    /\ undoStack = <<>>
    /\ redoStack = <<>>
    /\ imageCount = 0
    /\ nextImageId = 1
    /\ nextNodeId = 1
    /\ nudgeUndoPushed = FALSE
    /\ nudgeUndoTimeout = FALSE
    /\ opacityInput = NoOpacityInput
    /\ gesture = NoGesture
    /\ hist = <<NoAction, NoAction>>
    /\ run = NoRun
    /\ steps = 0
    /\ digitFor = NoId
    /\ batch = <<>>
    /\ alerts = 0
    /\ contextMenu = NoNode
    /\ destroyed = NoDestroyed
    /\ saves = <<>>
    /\ downloads = <<>>
    /\ simple = NoSimple
    /\ loading = NoLoad
    /\ probe = NoProbe

(***************************************************************************)
(* The user's actions and the timers, as steps of the editor.              *)
(***************************************************************************)
\* A pointer gesture holds the pointer: no other pointer action begins during it.
PointerFree == gesture.kind = "none"

\* The keydown handler returns before the shortcuts when nothing is selected.
HasSelection == getSelectedImage # NoNode

AddImage(src) == addImage(src) /\ Track("addImage", "op") /\ UNCHANGED <<probe, batch, alerts>> /\ menuFrame

ClickImage(nid) ==
    /\ PointerFree /\ selected # nid /\ clickImage(nid)
    /\ UNCHANGED <<hist, run, steps, digitFor, probe, batch, alerts, saves, downloads, simple, loading>>
    /\ hideContextMenu

ClickStage ==
    /\ PointerFree /\ selected # NoNode /\ clickStage
    /\ UNCHANGED <<hist, run, steps, digitFor, probe, batch, alerts, saves, downloads, simple, loading>>
    /\ hideContextMenu

FlipHorizontal == HasSelection /\ flipHorizontal /\ Track("flipHorizontal", "op") /\ UNCHANGED <<probe, batch, alerts>> /\ menuFrame

FlipVertical == HasSelection /\ flipVertical /\ Track("flipVertical", "op") /\ UNCHANGED <<probe, batch, alerts>> /\ menuFrame

RotateLeft == HasSelection /\ rotateLeft /\ Track("rotateLeft", "op") /\ UNCHANGED <<probe, batch, alerts>> /\ menuFrame

RotateRight == HasSelection /\ rotateRight /\ Track("rotateRight", "op") /\ UNCHANGED <<probe, batch, alerts>> /\ menuFrame

DuplicateImage == HasSelection /\ duplicateImage /\ Track("duplicateImage", "op") /\ UNCHANGED <<probe, batch, alerts>> /\ menuFrame

BringToTop == HasSelection /\ bringToTop /\ Track("bringToTop", "op") /\ UNCHANGED <<probe, batch, alerts>> /\ menuFrame

SendToBottom == HasSelection /\ sendToBottom /\ Track("sendToBottom", "op") /\ UNCHANGED <<probe, batch, alerts>> /\ menuFrame

DblclickImage(nid) ==
    PointerFree /\ dblclickImage(nid) /\ Track("dblclick", "op") /\ UNCHANGED <<probe, batch, alerts>> /\ menuFrame

DeleteSelected == HasSelection /\ deleteSelected /\ Track("deleteSelected", "op") /\ UNCHANGED <<probe, batch, alerts>> /\ menuFrame

SetBlendMode(mode) == HasSelection /\ setBlendMode(mode) /\ Track("setBlendMode", "op") /\ UNCHANGED <<probe, batch, alerts>> /\ menuFrame

CycleBlendMode == HasSelection /\ cycleBlendMode /\ Track("cycleBlendMode", "op") /\ UNCHANGED <<probe, batch, alerts>> /\ menuFrame

\* A digit key: the first digit of a value only arms the timer, the second sets the
\* opacity.
OpacityKey(digit) ==
    /\ HasSelection
    /\ handleOpacityKey(digit)
    /\ TrackWith("opacityKey", IF opacityInput.firstDigit # NoDigit THEN "op" ELSE "other",
                 digit)
    /\ UNCHANGED <<probe, batch, alerts>> /\ menuFrame

\* The opacity timer fires; with a selection it sets the opacity, an undoable
\* operation.
OpacityTimeout ==
    /\ opacityTimeout
    /\ IF HasSelection THEN Track("opacityTimeout", "op") ELSE TrackTimer
    /\ UNCHANGED <<probe, batch, alerts>> /\ menuFrame

Nudge(key) == HasSelection /\ handleNudge(key) /\ TrackNudge(key) /\ UNCHANGED <<probe, batch, alerts>> /\ menuFrame

NudgeTimeout == nudgeTimeout /\ TrackTimer /\ UNCHANGED <<probe, batch, alerts>> /\ menuFrame

Undo ==
    /\ undo
    /\ UNCHANGED <<imageCount, nextImageId, nudgeUndoPushed, nudgeUndoTimeout, opacityInput>>
    /\ Track("undo", IF undoStack # <<>> THEN "undo" ELSE "other")
    /\ UNCHANGED <<probe, batch, alerts>> /\ menuFrame

Redo ==
    /\ redo
    /\ UNCHANGED <<imageCount, nextImageId, nudgeUndoPushed, nudgeUndoTimeout, opacityInput>>
    /\ Track("redo", IF redoStack # <<>> THEN "redo" ELSE "other")
    /\ UNCHANGED <<probe, batch, alerts>> /\ menuFrame

DragStart(nid, d) == PointerFree /\ dragStart(nid, d) /\ Track("dragStart", "op") /\ UNCHANGED <<probe, batch, alerts>> /\ menuFrame

\* A move of a gesture continues it when no other user action came in between.
DragMove(d) ==
    /\ dragMove(d)
    /\ Track("dragMove", IF hist[2].name \in {"dragStart", "dragMove"} THEN "cont" ELSE "other")
    /\ UNCHANGED <<probe, batch, alerts>> /\ menuFrame

GestureEnd == gestureEnd /\ UNCHANGED <<hist, run, steps, digitFor, probe, batch, alerts>> /\ menuFrame

TransformStart == PointerFree /\ transformStart /\ Track("transformStart", "op") /\ UNCHANGED <<probe, batch, alerts>> /\ menuFrame

Transform(f) ==
    /\ transform(f)
    /\ Track("transform", IF hist[2].name \in {"transformStart", "transform"} THEN "cont" ELSE "other")
    /\ UNCHANGED <<probe, batch, alerts>> /\ menuFrame

CropDragStart(position, move) ==
    PointerFree /\ cropDragStart(position, move) /\ Track("cropDragStart", "op") /\ UNCHANGED <<probe, batch, alerts>> /\ menuFrame

CropDragMove(move) ==
    /\ cropDragMove(move)
    /\ Track("cropDragMove", IF hist[2].name \in {"cropDragStart", "cropDragMove"} THEN "cont" ELSE "other")
    /\ UNCHANGED <<probe, batch, alerts>> /\ menuFrame

ResetCrop == HasSelection /\ resetCrop /\ Track("resetCrop", "op") /\ UNCHANGED <<probe, batch, alerts>> /\ menuFrame

\* The user picks a project file: loadProject(file) runs up to its await.
LoadProjectCalled(file) ==
    /\ loading = NoLoad
    /\ loadProjectCalled(file)
    /\ TrackWith("loadProjectCalled", "other", file)
    /\ UNCHANGED <<probe, batch>> /\ pendingFrame

\* The archive has been read: loadProject(file) runs to its end, an undoable
\* operation unless the archive could not be read.
LoadProjectResumed ==
    /\ loading # NoLoad
    /\ loadProjectResumed(loading)
    /\ TrackWith("loadProject", IF deserializeThrows(loading.file) THEN "other" ELSE "op",
                 loading)
    /\ UNCHANGED <<probe, batch>> /\ pendingFrame

LoadProject(file) ==
    /\ loadProject(file)
    /\ TrackWith("loadProject", IF deserializeThrows(file) THEN "other" ELSE "op", file)
    /\ UNCHANGED <<probe, batch>> /\ menuFrame

DropFiles(files) ==
    dropFiles(files) /\ TrackWith("dropFiles", "other", files) /\ UNCHANGED probe /\ menuFrame

\* The turn of the loop is an undoable operation when it adds or merges images.
HandleNextFile ==
    /\ handleNextFile
    /\ LET file == Head(batch)
       IN  TrackWith(IF file.kind = "montage" THEN "loadProject"
                     ELSE IF file.kind = "heic" /\ ~file.converts THEN "convertHeic"
                     ELSE "addImage",
                     IF undoStack' # undoStack THEN "op" ELSE "other", file)
    /\ UNCHANGED probe /\ menuFrame

(***************************************************************************)
(* Inputs the specifications draw from.                                    *)
(***************************************************************************)
\* Decoded image files: one that fits the viewport, one that addImage scales down.
SmallImage == [ref |-> 1, width |-> 100, height |-> 80, name |-> "a.png"]

LargeImage == [ref |-> 2, width |-> 720, height |-> 400, name |-> "b.jpg"]

\* An image with a side below the minimum crop size.
TinyImage == [ref |-> 3, width |-> 16, height |-> 40, name |-> "icon.png"]

\* Arrow keys: ArrowRight, Ctrl+ArrowUp, Shift+ArrowLeft.
ArrowRight == [axis |-> "x", amount |-> 1, snap |-> TRUE]

CtrlArrowUp == [axis |-> "y", amount |-> -10, snap |-> TRUE]

ShiftArrowLeft == [axis |-> "x", amount |-> -1, snap |-> FALSE]

Edges == {"top", "right", "bottom", "left"}

\* A saved project of one image, as saveProject writes it.
ArchiveEntry(ref, x, y, rotation, z) ==
    [id |-> 900 + ref, imageRef |-> ref, originalWidth |-> 60, originalHeight |-> 40,
     x |-> x, y |-> y, scaleX |-> ScaleOne, scaleY |-> -ScaleOne, rotation |-> rotation,
     cropBounds |-> [top |-> 0, right |-> 4, bottom |-> 0, left |-> 8],
     blendMode |-> "screen", opacity |-> 50, name |-> "saved.png", zIndex |-> z,
     filename |-> ToString(z) \o ".png", absent |-> {},
     present |-> TRUE, decodes |-> TRUE]

OneImageArchive == <<ArchiveEntry(7, 120, 40, 90, 0)>>

\* Two images, stored in project.json out of paint order.
TwoImageArchive == <<ArchiveEntry(8, 10, 20, 0, 1), ArchiveEntry(9, 50, 60, 180, 0)>>

(***************************************************************************)
(* Spec: the editor with all its undoable operations, undo and redo.       *)
(***************************************************************************)
Budget == steps < MaxSteps

Next ==
    \/ Budget /\ AddImage(SmallImage)
    \/ Budget /\ LoadProject(ProjectFile(OneImageArchive))
    \/ \E nid \in {layer[i].nid : i \in DOMAIN layer} : ClickImage(nid)
    \/ ClickStage
    \/ Budget /\ \E nid \in {layer[i].nid : i \in DOMAIN layer} :
                    DragStart(nid, [dx |-> 10, dy |-> -6])
    \/ Budget /\ DragMove([dx |-> 4, dy |-> 2])
    \/ GestureEnd
    \/ Budget /\ TransformStart
    \/ Budget /\ Transform(200)
    \/ Budget /\ \E position \in {"left", "bottom"} : CropDragStart(position, 8)
    \/ Budget /\ CropDragMove(4)
    \/ Budget /\ ResetCrop
    \/ Budget /\ FlipHorizontal
    \/ Budget /\ FlipVertical
    \/ Budget /\ RotateLeft
    \/ Budget /\ RotateRight
    \/ Budget /\ DuplicateImage
    \/ Budget /\ BringToTop
    \/ Budget /\ SendToBottom
    \/ Budget /\ \E nid \in {layer[i].nid : i \in DOMAIN layer} : DblclickImage(nid)
    \/ Budget /\ DeleteSelected
    \/ Budget /\ SetBlendMode("multiply")
    \/ Budget /\ CycleBlendMode
    \/ Budget /\ \E digit \in {0, 2, 5} : OpacityKey(digit)
    \/ OpacityTimeout
    \/ Budget /\ Nudge(ArrowRight)
    \/ NudgeTimeout
    \/ Budget /\ Undo
    \/ Budget /\ Redo

Spec == Init /\ [][Next]_vars

(***************************************************************************)
(* SpecNudge: keyboard nudges and their timer, with undo, redo and one     *)
(* other operation.                                                        *)
(***************************************************************************)
NudgeBudget == steps < MaxNudgeSteps

NextNudge ==
    \/ NudgeBudget /\ imageCount = 0 /\ AddImage(SmallImage)
    \/ NudgeBudget /\ \E key \in {ArrowRight, CtrlArrowUp, ShiftArrowLeft} : Nudge(key)
    \/ NudgeTimeout
    \/ NudgeBudget /\ FlipHorizontal
    \/ NudgeBudget /\ Undo
    \/ NudgeBudget /\ Redo

SpecNudge == Init /\ [][NextNudge]_vars

(***************************************************************************)
(* SpecStack: one image, rotated again and again, with undo and redo: the  *)
(* undo stack fills up to its limit.                                       *)
(***************************************************************************)
StackBudget == steps < MaxStackSteps

NextStack ==
    \/ StackBudget /\ imageCount = 0 /\ AddImage(SmallImage)
    \/ StackBudget /\ RotateRight
    \/ StackBudget /\ Undo
    \/ StackBudget /\ Redo

SpecStack == Init /\ [][NextStack]_vars

(***************************************************************************)
(* How an image is drawn (exportCanvas, as Konva draws a node): the source *)
(* is scaled by the signs of scaleX and scaleY about its centre and then   *)
(* rotated clockwise.  For a rotation of whole quarter turns an edge of    *)
(* the source ends up on one side of the screen rectangle.                 *)
(***************************************************************************)
\* The direction from the centre to an edge; y grows downwards.
edgeDirection(edge) ==
    CASE edge = "left" -> <<-1, 0>> [] edge = "right" -> <<1, 0>>
      [] edge = "top" -> <<0, -1>> [] edge = "bottom" -> <<0, 1>>

\* ctx.rotate by `turns` quarter turns, clockwise on the screen.
RECURSIVE rotatedDirection(_, _)
rotatedDirection(v, turns) ==
    IF turns = 0 THEN v ELSE rotatedDirection(<<-v[2], v[1]>>, turns - 1)

\* The side of the screen on which the source edge `edge` of n is drawn.
drawnDirection(edge, n) ==
    LET d == edgeDirection(edge)
        scaled == <<(IF n.scaleX < 0 THEN -1 ELSE 1) * d[1],
                    (IF n.scaleY < 0 THEN -1 ELSE 1) * d[2]>>
    IN  rotatedDirection(scaled, (n.rotation \div 90) % 4)

\* The source edge of n that is drawn at the side `side` of the screen.
sourceEdgeShownAt(side, n) ==
    CHOOSE edge \in Edges : drawnDirection(edge, n) = edgeDirection(side)

(***************************************************************************)
(* SpecEdge: the edge mappings of the crop handles as pure functions, for  *)
(* rotations, scales and edges drawn at the start.                         *)
(***************************************************************************)
ProbeRotations == {-450, -90, -45, 0, 44, 45, 46, 90, 135, 180, 270, 315, 359, 810}

ProbeScales == {-150, -ScaleOne, 50, ScaleOne}

InitEdge ==
    /\ layer = <<>>
    /\ selected = NoNode
    /\ undoStack = <<>>
    /\ redoStack = <<>>
    /\ imageCount = 0
    /\ nextImageId = 1
    /\ nextNodeId = 1
    /\ nudgeUndoPushed = FALSE
    /\ nudgeUndoTimeout = FALSE
    /\ opacityInput = NoOpacityInput
    /\ gesture = NoGesture
    /\ hist = <<NoAction, NoAction>>
    /\ run = NoRun
    /\ steps = 0
    /\ digitFor = NoId
    /\ batch = <<>>
    /\ alerts = 0
    /\ contextMenu = NoNode
    /\ destroyed = NoDestroyed
    /\ saves = <<>>
    /\ downloads = <<>>
    /\ simple = NoSimple
    /\ loading = NoLoad
    /\ \E rotation \in ProbeRotations, scaleX \in ProbeScales, scaleY \in ProbeScales,
          edge \in Edges :
          probe = [NoProbe EXCEPT !.rotation = rotation, !.scaleX = scaleX,
                                  !.scaleY = scaleY, !.edge = edge]

\* A visual edge is mapped to its source edge and that one back.
ProbeVisualEdge ==
    LET sourceEdge == getSourceEdge(probe.edge, probe.rotation, probe.scaleX, probe.scaleY)
    IN  /\ probe.order = "none"
        /\ probe' = [probe EXCEPT
                        !.sourceEdge = sourceEdge,
                        !.visualEdge = getVisualEdge(sourceEdge, probe.rotation,
                                                     probe.scaleX, probe.scaleY),
                        !.order = "visual-source-visual"]
        /\ UNCHANGED <<programVars, hist, run, steps, digitFor, batch, alerts>> /\ menuFrame

\* A source edge is mapped to its visual edge and that one back.
ProbeSourceEdge ==
    LET visualEdge == getVisualEdge(probe.edge, probe.rotation, probe.scaleX, probe.scaleY)
    IN  /\ probe.order = "none"
        /\ probe' = [probe EXCEPT
                        !.visualEdge = visualEdge,
                        !.sourceEdge = getSourceEdge(visualEdge, probe.rotation,
                                                     probe.scaleX, probe.scaleY),
                        !.order = "source-visual-source"]
        /\ UNCHANGED <<programVars, hist, run, steps, digitFor, batch, alerts>> /\ menuFrame

NextEdge ==
    \/ ProbeVisualEdge
    \/ ProbeSourceEdge

SpecEdge == InitEdge /\ [][NextEdge]_vars

(***************************************************************************)
(* SpecFlip: rotations and flips of an added image and of the images of a  *)
(* loaded project, which may be rotated by any angle.                      *)
(***************************************************************************)
TiltedArchive ==
    <<ArchiveEntry(4, 0, 0, 50, 0), ArchiveEntry(5, 30, 30, 45, 1),
      ArchiveEntry(6, 60, 60, -100, 2)>>

FlipBudget == steps < MaxFlipSteps

NextFlip ==
    \/ FlipBudget /\ imageCount = 0 /\ AddImage(SmallImage)
    \/ FlipBudget /\ imageCount = 0 /\ LoadProject(ProjectFile(TiltedArchive))
    \/ \E nid \in 1..nextNodeId : ClickImage(nid)
    \/ FlipBudget /\ RotateLeft
    \/ FlipBudget /\ RotateRight
    \/ FlipBudget /\ FlipHorizontal
    \/ FlipBudget /\ FlipVertical

SpecFlip == Init /\ [][NextFlip]_vars

(***************************************************************************)
(* SpecCrop: drags of the crop handles of one image, which may be smaller  *)
(* than the minimum size, rotated and flipped.                             *)
(***************************************************************************)
CropMoves == {8, -4, 70}

CropBudget == steps < MaxCropSteps

NextCrop ==
    \/ CropBudget /\ imageCount = 0 /\ \E src \in {SmallImage, TinyImage} : AddImage(src)
    \/ CropBudget /\ RotateRight
    \/ CropBudget /\ FlipHorizontal
    \/ CropBudget /\ \E position \in Edges, move \in CropMoves : CropDragStart(position, move)
    \/ CropBudget /\ \E move \in CropMoves : CropDragMove(move)
    \/ GestureEnd

SpecCrop == Init /\ [][NextCrop]_vars

(***************************************************************************)
(* SpecAnchor: crop-handle drags on one image, either added or loaded from *)
(* a project in which it is turned by quarter turns, flipped and scaled.   *)
(***************************************************************************)
PhotoImage == [ref |-> 4, width |-> 1000, height |-> 800, name |-> "photo.jpg"]

TurnedEntry(rotation, scaleX, scaleY) ==
    [ArchiveEntry(3, 120, 40, rotation, 0) EXCEPT !.scaleX = scaleX, !.scaleY = scaleY]

AnchorFiles ==
    {ProjectFile(<<TurnedEntry(rotation, scale * signX, scale * signY)>>) :
        rotation \in {-90, 0, 90, 180, 270}, scale \in {50, ScaleOne},
        signX \in {-1, 1}, signY \in {-1, 1}}

AnchorMoves == {8, -4, 100}

AnchorBudget == steps < MaxAnchorSteps

NextAnchor ==
    \/ AnchorBudget /\ imageCount = 0 /\ \E src \in {SmallImage, PhotoImage} : AddImage(src)
    \/ AnchorBudget /\ imageCount = 0 /\ \E file \in AnchorFiles : LoadProject(file)
    \/ \E nid \in 1..nextNodeId : ClickImage(nid)
    \/ AnchorBudget /\ \E position \in Edges, move \in AnchorMoves :
                          CropDragStart(position, move)
    \/ AnchorBudget /\ \E move \in AnchorMoves : CropDragMove(move)
    \/ GestureEnd

SpecAnchor == Init /\ [][NextAnchor]_vars

(***************************************************************************)
(* SpecOpacity: the digit keys and their 300 ms timer on one image.        *)
(***************************************************************************)
OpacityBudget == steps < MaxOpacitySteps

NextOpacity ==
    \/ OpacityBudget /\ imageCount = 0 /\ AddImage(SmallImage)
    \/ ClickStage
    \/ \E nid \in 1..nextNodeId : ClickImage(nid)
    \/ OpacityBudget /\ \E digit \in 0..9 : OpacityKey(digit)
    \/ OpacityTimeout
    \/ OpacityBudget /\ Undo

SpecOpacity == Init /\ [][NextOpacity]_vars

(***************************************************************************)
(* SpecIdle: the operations on the selection called while nothing is       *)
(* selected (toolbar buttons, context-menu entries, the opacity timer),    *)
(* in scenes built by adding images, undo and redo.                        *)
(***************************************************************************)
\* The operations on the selection, by name.
selectionOp(name) ==
    CASE name = "flipHorizontal" -> flipHorizontal
      [] name = "flipVertical" -> flipVertical
      [] name = "rotateLeft" -> rotateLeft
      [] name = "rotateRight" -> rotateRight
      [] name = "duplicateImage" -> duplicateImage
      [] name = "bringToTop" -> bringToTop
      [] name = "sendToBottom" -> sendToBottom
      [] name = "deleteSelected" -> deleteSelected
      [] name = "setBlendMode" -> setBlendMode("multiply")
      [] name = "cycleBlendMode" -> cycleBlendMode
      [] name = "resetCrop" -> resetCrop
      [] name = "nudge" -> handleNudge(ArrowRight)
      [] name = "opacityKey" -> handleOpacityKey(5)
      [] name = "setOpacity" ->
            /\ setOpacity(50)
            /\ UNCHANGED <<selected, imageCount, nextImageId, nextNodeId,
                           nudgeUndoPushed, nudgeUndoTimeout, opacityInput, gesture>>

SelectionOps ==
    {"flipHorizontal", "flipVertical", "rotateLeft", "rotateRight", "duplicateImage",
     "bringToTop", "sendToBottom", "deleteSelected", "setBlendMode", "cycleBlendMode",
     "resetCrop", "nudge", "opacityKey", "setOpacity"}

\* An operation on the selection is called while nothing is selected.
CallUnselected(name) ==
    /\ ~HasSelection
    /\ selectionOp(name)
    /\ Track(name, "other")
    /\ UNCHANGED <<probe, batch, alerts>> /\ menuFrame

IdleBudget == steps < MaxIdleSteps

NextIdle ==
    \/ IdleBudget /\ imageCount < 2 /\ AddImage(SmallImage)
    \/ ClickStage
    \/ \E nid \in 1..nextNodeId : ClickImage(nid)
    \/ IdleBudget /\ Undo
    \/ IdleBudget /\ Redo
    \/ IdleBudget /\ \E name \in SelectionOps : CallUnselected(name)

SpecIdle == Init /\ [][NextIdle]_vars

(***************************************************************************)
(* The context menu of an image.                                           *)
(***************************************************************************)
\* The contextmenu handler of the image nid: the image is selected and
\* showContextMenu(x, y, konvaImage) builds the menu for it.
showContextMenu(nid) ==
    /\ IsLive(nid)
    /\ selected' = nid
    /\ contextMenu' = nid
    /\ destroyed' = NoDestroyed
    /\ gesture' = gestureAfterSelect
    /\ UNCHANGED <<layer, undoStack, redoStack, imageCount, nextImageId, nextNodeId,
                   nudgeUndoPushed, nudgeUndoTimeout, opacityInput, saves, downloads>>

\* The entries of the menu: data-action, and data-blend of a blend entry.
MenuItems ==
    {[action |-> a, blend |-> ""] :
        a \in {"totop", "tobottom", "duplicate", "fliph", "flipv", "resetcrop", "delete"}}
    \cup {[action |-> "blend", blend |-> "screen"]}

\* The click handler of the menu for the entry item: transformer.nodes([node]) selects
\* the node the menu was built for, destroyed or not, the operation of the entry runs
\* on it, and the menu is hidden.
menuClick(item) ==
    LET node == contextMenu
        n == NodeOf(node)
        clone == [n EXCEPT !.nid = nextNodeId, !.imageId = nextImageId,
                           !.x = @ + 30, !.y = @ + 30]
        edited == CASE item.action = "fliph" -> flippedHorizontal(n)
                    [] item.action = "flipv" -> flippedVertical(n)
                    [] item.action = "resetcrop" -> [n EXCEPT !.cropBounds = ZeroCrop]
                    [] item.action = "blend" -> [n EXCEPT !.blendMode = item.blend]
                    [] OTHER -> n
    IN  /\ contextMenu # NoNode
        /\ pushUndo
        /\ layer' = CASE item.action = "totop" -> movedToTop(layer, node)
                      [] item.action = "tobottom" -> movedToBottom(layer, node)
                      [] item.action = "duplicate" -> Append(layer, clone)
                      [] item.action = "delete" -> without(layer, node)
                      [] OTHER -> withNode(node, edited)
        /\ selected' = CASE item.action = "duplicate" -> clone.nid
                         [] item.action = "delete" -> NoNode
                         [] OTHER -> node
        /\ imageCount' = IF item.action = "duplicate" THEN imageCount + 1 ELSE imageCount
        /\ nextImageId' = IF item.action = "duplicate" THEN nextImageId + 1 ELSE nextImageId
        /\ nextNodeId' = IF item.action = "duplicate" THEN nextNodeId + 1 ELSE nextNodeId
        /\ gesture' = gestureAfterSelect
        /\ hideContextMenu
        /\ UNCHANGED <<nudgeUndoPushed, nudgeUndoTimeout, opacityInput, saves, downloads>>

ShowContextMenu(nid) ==
    /\ PointerFree /\ contextMenu # nid /\ showContextMenu(nid)
    /\ UNCHANGED <<hist, run, steps, digitFor, probe, batch, alerts, simple, loading>>

MenuClick(item) ==
    menuClick(item) /\ TrackWith("menuClick", "op", item)
    /\ UNCHANGED <<probe, batch, alerts, simple, loading>>

\* A click on the page outside the stage and the menu.
ClickPage ==
    /\ contextMenu # NoNode
    /\ UNCHANGED <<programVars, hist, run, steps, digitFor, probe, batch, alerts, saves, downloads,
                   simple, loading>>
    /\ hideContextMenu

(***************************************************************************)
(* Saving a project: saveProject() captures the scene and awaits the       *)
(* encoding of every image and the packing of the archive; other handlers  *)
(* run while it waits.                                                     *)
(***************************************************************************)
\* An encoding step that reads the image from the scene as it is now.
encodedImageLive(save) ==
    LET state == captureState(layer)
        i == Len(save.projectData) + 1
    IN  IF i <= Len(state) THEN serializeStateToZip(state)[i]
        ELSE serializeStateToZip(save.state)[i]

\* The entry the loop of serializeStateToZip(state) pushes next for a save in flight.
encodedImage(save) == serializeStateToZip(save.state)[Len(save.projectData) + 1]

\* saveProject(), up to its first await: the state is captured; an empty scene is
\* refused with an alert.  For the history, `initiated` records the scene at that
\* moment, and `written` the scene at the moment the file is written.
saveProject ==
    LET state == captureState(layer)
    IN  /\ IF Len(state) = 0
           THEN alerts' = alerts + 1 /\ UNCHANGED saves
           ELSE /\ saves' = Append(saves, [state |-> state, projectData |-> <<>>,
                                          initiated |-> SceneOf(layer)])
                /\ UNCHANGED alerts
        /\ UNCHANGED <<programVars, downloads>>

\* The save in flight k goes on after `await canvas.toBlob`: one more image is in the
\* project data.
saveEncode(k) ==
    /\ k \in DOMAIN saves
    /\ Len(saves[k].projectData) < Len(saves[k].state)
    /\ saves' = [saves EXCEPT ![k].projectData = Append(@, encodedImage(saves[k]))]
    /\ UNCHANGED <<programVars, downloads, alerts>>

\* The save in flight k goes on after `await zip.generateAsync`: project.montage is
\* written.
saveFinish(k) ==
    /\ k \in DOMAIN saves
    /\ Len(saves[k].projectData) = Len(saves[k].state)
    /\ downloads' = Append(downloads, [projectData |-> saves[k].projectData,
                                       initiated |-> saves[k].initiated,
                                       written |-> SceneOf(layer)])
    /\ saves' = SubSeq(saves, 1, k - 1) \o SubSeq(saves, k + 1, Len(saves))
    /\ UNCHANGED <<programVars, alerts>>

menuStays ==
    UNCHANGED <<contextMenu, destroyed>>

SaveProject ==
    saveProject /\ Track("saveProject", "other") /\ UNCHANGED <<probe, batch, simple, loading>>
    /\ menuStays

SaveEncode(k) ==
    saveEncode(k) /\ UNCHANGED <<hist, run, steps, digitFor, probe, batch, simple, loading>> /\ menuStays

SaveFinish(k) ==
    saveFinish(k) /\ UNCHANGED <<hist, run, steps, digitFor, probe, batch, simple, loading>> /\ menuStays

(***************************************************************************)
(* SpecSave: projects are saved while the scene is edited.                 *)
(***************************************************************************)
SaveBudget == steps < MaxSaveSteps

NextSave ==
    \/ SaveBudget /\ imageCount < 2 /\ \E src \in {SmallImage, TinyImage} : AddImage(src)
    \/ ClickStage
    \/ \E nid \in 1..nextNodeId : ClickImage(nid)
    \/ SaveBudget /\ FlipHorizontal
    \/ SaveBudget /\ DeleteSelected
    \/ SaveBudget /\ Undo
    \/ SaveBudget /\ SaveProject
    \/ \E k \in DOMAIN saves : SaveEncode(k)
    \/ \E k \in DOMAIN saves : SaveFinish(k)

SpecSave == Init /\ [][NextSave]_vars

(***************************************************************************)
(* SpecParse: project data, of version 1 and of version 2, are             *)
(* deserialized; the scene they give is saved, loaded and saved again.     *)
(***************************************************************************)
\* project.json of two images: the first one complete, its file in the archive or
\* not; the second one without the fields `absent`, with the given opacity.
ParseData(absent, opacity, present) ==
    <<[ArchiveEntry(8, 10, 20, 0, 1) EXCEPT !.present = present],
      [ArchiveEntry(9, 50, 60, 180, 0) EXCEPT !.absent = absent, !.opacity = opacity]>>

ParseOpacities == {0, 50}

InitParse ==
    /\ layer = <<>>
    /\ selected = NoNode
    /\ undoStack = <<>>
    /\ redoStack = <<>>
    /\ imageCount = 0
    /\ nextImageId = 1
    /\ nextNodeId = 1
    /\ nudgeUndoPushed = FALSE
    /\ nudgeUndoTimeout = FALSE
    /\ opacityInput = NoOpacityInput
    /\ gesture = NoGesture
    /\ hist = <<NoAction, NoAction>>
    /\ run = NoRun
    /\ steps = 0
    /\ digitFor = NoId
    /\ batch = <<>>
    /\ alerts = 0
    /\ contextMenu = NoNode
    /\ destroyed = NoDestroyed
    /\ saves = <<>>
    /\ downloads = <<>>
    /\ simple = NoSimple
    /\ loading = NoLoad
    /\ \E absent \in SUBSET OptionalFields, opacity \in ParseOpacities,
          present \in BOOLEAN :
          probe = [data |-> ParseData(absent, opacity, present), parsed |-> <<>>,
                   saved |-> <<>>, reloaded |-> <<>>, resaved |-> <<>>,
                   order |-> "data"]

probeFrame == UNCHANGED <<programVars, hist, run, steps, digitFor, batch, alerts>> /\ menuFrame

\* The project data are deserialized.
ProbeDeserialize ==
    /\ probe.order = "data"
    /\ probe' = [probe EXCEPT !.parsed = deserializeStateFromZip(probe.data),
                              !.order = "parsed"]
    /\ probeFrame

\* The scene restoreState builds from the deserialized state is captured and
\* serialized.
ProbeSerialize ==
    /\ probe.order = "parsed"
    /\ probe' = [probe EXCEPT
                    !.saved = serializeStateToZip(
                                  captureState(restoredLayer(probe.parsed, nextNodeId))),
                    !.order = "saved"]
    /\ probeFrame

\* The saved project data are deserialized.
ProbeReload ==
    /\ probe.order = "saved"
    /\ probe' = [probe EXCEPT !.reloaded = deserializeStateFromZip(probe.saved),
                              !.order = "reloaded"]
    /\ probeFrame

\* The reloaded state is serialized.
ProbeResave ==
    /\ probe.order = "reloaded"
    /\ probe' = [probe EXCEPT !.resaved = serializeStateToZip(probe.reloaded),
                              !.order = "resaved"]
    /\ probeFrame

NextParse ==
    \/ ProbeDeserialize
    \/ ProbeSerialize
    \/ ProbeReload
    \/ ProbeResave

SpecParse == InitParse /\ [][NextParse]_vars

(***************************************************************************)
(* SpecKeys: the arrow keys, alone and with Shift and Ctrl.                *)
(***************************************************************************)
\* The nudge the keydown handler makes of the arrow key event e: Ctrl makes the
\* amount 10, Shift switches the rounding off.
nudgeOf(e) ==
    LET moveAmount == IF e.ctrlKey THEN 10 ELSE 1
        shouldSnap == ~e.shiftKey
    IN  CASE e.key = "ArrowLeft" -> [axis |-> "x", amount |-> -moveAmount, snap |-> shouldSnap]
          [] e.key = "ArrowRight" -> [axis |-> "x", amount |-> moveAmount, snap |-> shouldSnap]
          [] e.key = "ArrowUp" -> [axis |-> "y", amount |-> -moveAmount, snap |-> shouldSnap]
          [] e.key = "ArrowDown" -> [axis |-> "y", amount |-> moveAmount, snap |-> shouldSnap]

ArrowKeyEvents ==
    [key : {"ArrowLeft", "ArrowRight", "ArrowUp", "ArrowDown"},
     shiftKey : BOOLEAN, ctrlKey : BOOLEAN]

KeyDownArrow(e) ==
    /\ HasSelection /\ handleNudge(nudgeOf(e)) /\ TrackNudge(e)
    /\ UNCHANGED <<probe, batch, alerts>> /\ menuFrame

KeyBudget == steps < MaxKeySteps

NextKeys ==
    \/ KeyBudget /\ imageCount = 0 /\ AddImage(SmallImage)
    \/ KeyBudget /\ \E e \in ArrowKeyEvents : KeyDownArrow(e)
    \/ NudgeTimeout
    \/ KeyBudget /\ Undo

SpecKeys == Init /\ [][NextKeys]_vars

(***************************************************************************)
(* SpecMenu: the context menu of an image stays open while the keyboard    *)
(* undoes, redoes and deletes.                                             *)
(***************************************************************************)
MenuBudget == steps < MaxMenuSteps

NextMenu ==
    \/ MenuBudget /\ imageCount < 2 /\ AddImage(SmallImage)
    \/ \E nid \in 1..nextNodeId : ShowContextMenu(nid)
    \/ MenuBudget /\ \E item \in MenuItems : MenuClick(item)
    \/ ClickPage
    \/ ClickStage
    \/ \E nid \in 1..nextNodeId : ClickImage(nid)
    \/ MenuBudget /\ Undo
    \/ MenuBudget /\ Redo
    \/ MenuBudget /\ DeleteSelected

SpecMenu == Init /\ [][NextMenu]_vars

(***************************************************************************)
(* SpecLoad: projects are loaded into scenes built by adding images, undo  *)
(* and redo: good archives, the project saved from the scene itself, and   *)
(* archives that fail to load or lack an image file.                       *)
(***************************************************************************)
CorruptFile == [ProjectFile(OneImageArchive) EXCEPT !.unpacks = FALSE]

NoProjectFile == [ProjectFile(<<>>) EXCEPT !.project = "missing"]

BadJsonFile == [ProjectFile(<<>>) EXCEPT !.project = "unparsable"]

\* The second image of the archive is no image the browser can decode.
UndecodableImageFile ==
    ProjectFile(<<ArchiveEntry(8, 10, 20, 0, 0),
                  [ArchiveEntry(9, 50, 60, 180, 1) EXCEPT !.decodes = FALSE]>>)

\* project.json names an image file that is not in the archive.
MissingImageFile ==
    ProjectFile(<<ArchiveEntry(8, 10, 20, 0, 0),
                  [ArchiveEntry(9, 50, 60, 180, 1) EXCEPT !.present = FALSE]>>)

LoadFiles ==
    {ProjectFile(OneImageArchive), ProjectFile(TwoImageArchive), CorruptFile,
     NoProjectFile, BadJsonFile, UndecodableImageFile, MissingImageFile}

\* The project saveProject() writes for the current scene.
SavedFile == ProjectFile(serializeStateToZip(captureState(layer)))

LoadBudget == steps < MaxLoadSteps

NextLoad ==
    \/ LoadBudget /\ imageCount < 2 /\ AddImage(SmallImage)
    \/ ClickStage
    \/ \E nid \in 1..nextNodeId : ClickImage(nid)
    \/ LoadBudget /\ \E file \in LoadFiles : LoadProject(file)
    \/ LoadBudget /\ layer # <<>> /\ LoadProject(SavedFile)
    \/ LoadBudget /\ Undo
    \/ LoadBudget /\ Redo

SpecLoad == Init /\ [][NextLoad]_vars

(***************************************************************************)
(* SpecBatch: batches of dropped files, some of which fail to convert or   *)
(* to decode.                                                              *)
(***************************************************************************)
Batches ==
    {<<ImageFile("image", SmallImage, TRUE, TRUE),
       ImageFile("image", TinyImage, TRUE, FALSE),
       ImageFile("image", LargeImage, TRUE, TRUE)>>,
     <<ImageFile("heic", SmallImage, TRUE, TRUE),
       ImageFile("heic", TinyImage, FALSE, TRUE),
       ImageFile("image", LargeImage, TRUE, TRUE)>>,
     <<ImageFile("image", SmallImage, TRUE, TRUE),
       UndecodableImageFile,
       ImageFile("heic", LargeImage, TRUE, FALSE),
       ProjectFile(OneImageArchive)>>}

BatchBudget == steps < MaxBatchSteps

NextBatch ==
    \/ BatchBudget /\ \E files \in Batches : DropFiles(files)
    \/ BatchBudget /\ HandleNextFile
    \/ ClickStage
    \/ \E nid \in 1..nextNodeId : ClickImage(nid)
    \/ BatchBudget /\ Undo

SpecBatch == Init /\ [][NextBatch]_vars

(***************************************************************************)
(* SpecClamp: the opacity of images that are added, duplicated, restored   *)
(* and set through the digit keys or through setOpacity itself.            *)
(***************************************************************************)
\* setOpacity(percent) called with a selection.
SetOpacity(percent) ==
    /\ HasSelection
    /\ setOpacity(percent)
    /\ UNCHANGED <<selected, imageCount, nextImageId, nextNodeId, nudgeUndoPushed,
                   nudgeUndoTimeout, opacityInput, gesture>>
    /\ TrackWith("setOpacity", "op", percent)
    /\ UNCHANGED <<probe, batch, alerts>> /\ menuFrame

\* Percentages below, in and above the range 0..100.
Percents == {-250, -1, 0, 37, 100, 101, 250}

ClampBudget == steps < MaxClampSteps

NextClamp ==
    \/ ClampBudget /\ imageCount < 2 /\ AddImage(SmallImage)
    \/ ClickStage
    \/ \E nid \in 1..nextNodeId : ClickImage(nid)
    \/ ClampBudget /\ \E digit \in {0, 4, 9} : OpacityKey(digit)
    \/ OpacityTimeout
    \/ ClampBudget /\ \E percent \in Percents : SetOpacity(percent)
    \/ ClampBudget /\ DuplicateImage
    \/ ClampBudget /\ Undo
    \/ ClampBudget /\ Redo

SpecClamp == Init /\ [][NextClamp]_vars

(***************************************************************************)
(* SpecBounds: the crop bounds of images of any size that are added,       *)
(* cropped as far as the handles go, reset, turned, duplicated, restored.  *)
(***************************************************************************)
BoundsBudget == steps < MaxBoundsSteps

NextBounds ==
    \/ BoundsBudget /\ imageCount < 2 /\ \E src \in {SmallImage, TinyImage} : AddImage(src)
    \/ ClickStage
    \/ \E nid \in 1..nextNodeId : ClickImage(nid)
    \/ BoundsBudget /\ \E position \in Edges, move \in CropMoves :
                          CropDragStart(position, move)
    \/ BoundsBudget /\ \E move \in CropMoves : CropDragMove(move)
    \/ GestureEnd
    \/ BoundsBudget /\ ResetCrop
    \/ BoundsBudget /\ RotateRight
    \/ BoundsBudget /\ FlipHorizontal
    \/ BoundsBudget /\ DuplicateImage
    \/ BoundsBudget /\ Undo
    \/ BoundsBudget /\ Redo

SpecBounds == Init /\ [][NextBounds]_vars

(***************************************************************************)
(* SpecVariant: this editor and the simpler variant are given the same     *)
(* operations, those both offer; an image is clicked by its place in the   *)
(* paint order.                                                            *)
(***************************************************************************)
variantFrame ==
    UNCHANGED <<probe, batch, contextMenu, destroyed, saves, downloads, loading>>

VariantAddImage(src) ==
    /\ addImage(src)
    /\ simple' = simpleAddImage(simple, src)
    /\ TrackWith("addImage", "op", src)
    /\ UNCHANGED alerts /\ variantFrame

VariantClickImage(i) ==
    /\ i \in DOMAIN layer /\ i \in DOMAIN simple.layer
    /\ selected # layer[i].nid
    /\ clickImage(layer[i].nid)
    /\ simple' = simpleClickImage(simple, i)
    /\ UNCHANGED <<hist, run, steps, digitFor, alerts>> /\ variantFrame

VariantFlipHorizontal ==
    /\ HasSelection
    /\ flipHorizontal
    /\ simple' = simpleFlipHorizontal(simple)
    /\ Track("flipHorizontal", "op")
    /\ UNCHANGED alerts /\ variantFrame

VariantFlipVertical ==
    /\ HasSelection
    /\ flipVertical
    /\ simple' = simpleFlipVertical(simple)
    /\ Track("flipVertical", "op")
    /\ UNCHANGED alerts /\ variantFrame

VariantOps ==
    {"rotateLeft", "rotateRight", "duplicateImage", "bringToTop", "sendToBottom",
     "deleteSelected", "setBlendMode", "setOpacity", "nudge"}

\* One of the other operations on the selection, with the argument selectionOp
\* gives it.
VariantOp(name) ==
    /\ HasSelection
    /\ selectionOp(name)
    /\ simple' = simpleSelectionOp(simple, name,
                                   CASE name = "setBlendMode" -> "multiply"
                                     [] name = "setOpacity" -> 50
                                     [] name = "nudge" -> ArrowRight
                                     [] OTHER -> 0)
    /\ IF name = "nudge" THEN TrackNudge(ArrowRight) ELSE Track(name, "op")
    /\ UNCHANGED alerts /\ variantFrame

VariantLoadProject(file) ==
    /\ loadProject(file)
    /\ simple' = simpleLoadProject(simple, file)
    /\ TrackWith("loadProject", IF deserializeThrows(file) THEN "other" ELSE "op", file)
    /\ variantFrame

VariantFiles == {ProjectFile(TwoImageArchive), UndecodableImageFile, MissingImageFile}

VariantBudget == steps < MaxVariantSteps

NextVariant ==
    \/ VariantBudget /\ \E src \in {SmallImage, LargeImage} : VariantAddImage(src)
    \/ \E i \in 1..Len(layer) : VariantClickImage(i)
    \/ VariantBudget /\ VariantFlipHorizontal
    \/ VariantBudget /\ VariantFlipVertical
    \/ VariantBudget /\ \E name \in VariantOps : VariantOp(name)
    \/ VariantBudget /\ \E file \in VariantFiles : VariantLoadProject(file)

SpecVariant == Init /\ [][NextVariant]_vars

(***************************************************************************)
(* SpecTurn: images are turned by quarter turns, past a full turn in both  *)
(* directions, duplicated and restored.                                    *)
(***************************************************************************)
TurnBudget == steps < MaxTurnSteps

NextTurn ==
    \/ TurnBudget /\ imageCount = 0 /\ AddImage(SmallImage)
    \/ ClickStage
    \/ \E nid \in 1..nextNodeId : ClickImage(nid)
    \/ TurnBudget /\ RotateLeft
    \/ TurnBudget /\ RotateRight
    \/ TurnBudget /\ DuplicateImage
    \/ TurnBudget /\ Undo
    \/ TurnBudget /\ Redo

SpecTurn == Init /\ [][NextTurn]_vars

(***************************************************************************)
(* SpecPending: the scene is edited while a loadProject() call waits for   *)
(* its archive to be read.                                                 *)
(***************************************************************************)
PendingBudget == steps < MaxPendingSteps

NextPending ==
    \/ PendingBudget /\ imageCount < 2 /\ AddImage(SmallImage)
    \/ ClickStage
    \/ \E nid \in 1..nextNodeId : ClickImage(nid)
    \/ PendingBudget /\ \E file \in {ProjectFile(OneImageArchive), CorruptFile} :
                           LoadProjectCalled(file)
    \/ PendingBudget /\ LoadProjectResumed
    \/ PendingBudget /\ FlipHorizontal
    \/ PendingBudget /\ Nudge(ArrowRight)
    \/ NudgeTimeout
    \/ PendingBudget /\ DeleteSelected
    \/ PendingBudget /\ Undo
    \/ PendingBudget /\ Redo

SpecPending == Init /\ [][NextPending]_vars

(***************************************************************************)
(* Claims.                                                                 *)
(***************************************************************************)
\* The entities of a snapshot, in its order.
SceneOfState(state) ==
    [i \in 1..Len(state) |->
        [id |-> state[i].id, x |-> state[i].x, y |-> state[i].y,
         scaleX |-> state[i].scaleX, scaleY |-> state[i].scaleY,
         rotation |-> state[i].rotation, cropBounds |-> state[i].cropBounds,
         blendMode |-> state[i].blendMode, opacity |-> state[i].opacity,
         name |-> state[i].name, originalWidth |-> state[i].originalWidth,
         originalHeight |-> state[i].originalHeight]]

\* C1: an undo() that directly follows an undoable operation (a gesture counts from
\* its first step) leaves the scene that was there before the operation: the same
\* entities, in the same z-order, with the same fields.
C1_UndoRestoresScene ==
    (hist[2].name = "undo" /\ hist[1].kind \in {"op", "cont"})
        => SceneOf(layer) = hist[1].before

\* The same for every operation but the keyboard nudge.
UndoRestoresSceneButNudge ==
    (hist[2].name = "undo" /\ hist[1].kind \in {"op", "cont"} /\ hist[1].name # "nudge")
        => SceneOf(layer) = hist[1].before

\* C2: a redo() that directly follows an undo() on a non-empty undo stack leaves the
\* scene that was there right before that undo().
C2_RedoRestoresScene ==
    (hist[2].kind = "redo" /\ hist[1].kind = "undo") => SceneOf(layer) = hist[1].before

\* A redo after an undo that had changed an entity of the scene.
C2_Witness ==
    /\ hist[2].kind = "redo"
    /\ hist[1].kind = "undo"
    /\ hist[2].before # hist[1].before
    /\ Len(layer) >= 1
    /\ Len(hist[2].before) >= 1

\* C3: a mutating action leaves the redo stack empty.
C3_MutationClearsRedo ==
    hist[2].kind \in {"op", "cont"} => redoStack = <<>>

\* C4: the undo stack never holds more than MAX_UNDO_LEVELS snapshots, and an
\* operation that pushes onto a full stack drops the oldest snapshot and keeps the
\* others in order.
C4_UndoStackBounded ==
    /\ [](Len(undoStack) <= MAX_UNDO_LEVELS)
    /\ [][(hist'[2].kind = "op" /\ Len(undoStack) = MAX_UNDO_LEVELS)
             => (/\ Len(undoStack') = MAX_UNDO_LEVELS
                 /\ Front(undoStack') = Tail(undoStack)
                 /\ SceneOfState(Last(undoStack')) = SceneOf(layer))]_vars

\* A full undo stack whose oldest snapshot, the empty scene, was dropped.
C4_Witness ==
    /\ Len(undoStack) = MAX_UNDO_LEVELS
    /\ undoStack[1] # <<>>
    /\ hist[2].kind = "op"

\* C5: a run of nudges pushes one snapshot, the scene before its first nudge, and an
\* undo() that directly follows a run of nothing but nudges leaves that scene.
C5_NudgeRunCoalesced ==
    /\ run.started =>
          /\ run.pushes = 1
          /\ run.top # <<>>
          /\ SceneOfState(run.top[1]) = run.start
    /\ (hist[2].kind = "undo" /\ hist[1].name = "nudge" /\ hist[1].pure)
          => SceneOf(layer) = run.start

\* The second run of nudges, of two nudges or more, undone by one undo().
C5_Witness ==
    /\ run.count = 2
    /\ hist[2].kind = "undo"
    /\ hist[1].name = "nudge"
    /\ hist[1].kind = "cont"
    /\ hist[1].pure
    /\ SceneOf(layer) = run.start

C7_EdgeMappingsInverse ==
    /\ probe.order = "visual-source-visual" => probe.visualEdge = probe.edge
    /\ probe.order = "source-visual-source" => probe.sourceEdge = probe.edge

\* The top handle of an image turned by -90 degrees and mirrored in x: its source
\* edge is another edge, and that one maps back to the top.
C7_Witness ==
    /\ probe.order = "visual-source-visual"
    /\ probe.rotation = -90
    /\ probe.scaleX < 0
    /\ probe.scaleY > 0
    /\ probe.edge = "top"
    /\ probe.sourceEdge # "top"
    /\ probe.visualEdge = "top"

\* The entity of the scene before the last action that is the selected image.
SelectedBefore ==
    LET id == NodeOf(selected).imageId
    IN  hist[2].before[CHOOSE i \in DOMAIN hist[2].before : hist[2].before[i].id = id]

QuarterTurned(n) == n.rotation % 90 = 0

\* A step that is the flip `name` of the selected image.
FlipStep(name) == hist'[2].name = name /\ steps' = steps + 1 /\ selected # NoNode

\* C8: on an image turned by quarter turns, flipHorizontal() exchanges the source
\* edges drawn at the left and at the right of the screen and keeps those drawn at
\* the top and at the bottom; flipVertical() exchanges top and bottom and keeps left
\* and right.
C8_FlipAlongVisualAxis ==
    [][\A name \in {"flipHorizontal", "flipVertical"} :
         (FlipStep(name) /\ QuarterTurned(NodeOf(selected)))
         => LET before == NodeOf(selected)
                after == NodeOf(selected)'
                exchanged == IF name = "flipHorizontal"
                             THEN {"left", "right"} ELSE {"top", "bottom"}
            IN  /\ selected' = selected
                /\ \A side \in Edges :
                      sourceEdgeShownAt(side, after) =
                         sourceEdgeShownAt(IF side \in exchanged THEN oppositeEdge(side)
                                           ELSE side, before)]_vars

\* A horizontal flip of an image turned by 270 degrees: what was drawn at the right
\* is drawn at the left.
C8_Witness ==
    /\ hist[2].name = "flipHorizontal"
    /\ selected # NoNode
    /\ NodeOf(selected).rotation = 270
    /\ NodeOf(selected).scaleY < 0
    /\ sourceEdgeShownAt("left", NodeOf(selected)) = sourceEdgeShownAt("right", SelectedBefore)
    /\ sourceEdgeShownAt("left", NodeOf(selected)) # sourceEdgeShownAt("left", SelectedBefore)

\* C9: flipHorizontal() negates scaleY and keeps scaleX when the rotation modulo 180
\* lies strictly between 45 and 135, and negates scaleX and keeps scaleY otherwise;
\* flipVertical() does the reverse.
C9_FlipAxisByRotation ==
    [][\A name \in {"flipHorizontal", "flipVertical"} :
         FlipStep(name)
         => LET before == NodeOf(selected)
                after == NodeOf(selected)'
                sideways == before.rotation % 180 > 45 /\ before.rotation % 180 < 135
                negatesY == (name = "flipHorizontal") = sideways
            IN  IF negatesY
                THEN after = [before EXCEPT !.scaleY = -before.scaleY]
                ELSE after = [before EXCEPT !.scaleX = -before.scaleX]]_vars

\* An image rotated to 90 degrees and flipped horizontally: scaleY changed its sign.
C9_Witness ==
    /\ hist[2].name = "flipHorizontal"
    /\ selected # NoNode
    /\ NodeOf(selected).rotation = 90
    /\ SelectedBefore.scaleY > 0
    /\ NodeOf(selected).scaleY < 0
    /\ NodeOf(selected).scaleX = SelectedBefore.scaleX

\* C10: after each crop update the crop bounds of the image leave 20 source pixels in
\* both axes.
C10_CropLeavesMinSize ==
    (hist[2].name \in {"cropDragStart", "cropDragMove"} /\ selected # NoNode)
    => LET n == NodeOf(selected)
       IN  /\ n.cropBounds.top + n.cropBounds.bottom <= n.originalHeight - minSize
           /\ n.cropBounds.left + n.cropBounds.right <= n.originalWidth - minSize

\* C10, amended: after each crop update the crop bounds leave 20 source pixels in an
\* axis in which the source has 20 pixels or more; in an axis in which the source is
\* smaller both bounds are 0.
C10_CropLeavesMinSizeIfPossible ==
    (hist[2].name \in {"cropDragStart", "cropDragMove"} /\ selected # NoNode)
    => LET n == NodeOf(selected)
           c == n.cropBounds
       IN  /\ c.top >= 0 /\ c.bottom >= 0 /\ c.left >= 0 /\ c.right >= 0
           /\ IF n.originalHeight >= minSize
              THEN c.top + c.bottom <= n.originalHeight - minSize
              ELSE c.top = 0 /\ c.bottom = 0
           /\ IF n.originalWidth >= minSize
              THEN c.left + c.right <= n.originalWidth - minSize
              ELSE c.left = 0 /\ c.right = 0

\* A crop handle of a turned image was dragged further than the minimum size allows:
\* exactly 20 source pixels are left in that axis.
C10_Witness ==
    /\ hist[2].name \in {"cropDragStart", "cropDragMove"}
    /\ selected # NoNode
    /\ NodeOf(selected).rotation = 90
    /\ NodeOf(selected).originalWidth >= minSize
    /\ NodeOf(selected).cropBounds.left + NodeOf(selected).cropBounds.right
          = NodeOf(selected).originalWidth - minSize

\* A step that is a crop update of the selected image.
CropStep ==
    /\ hist'[2].name \in {"cropDragStart", "cropDragMove"}
    /\ steps' = steps + 1
    /\ selected # NoNode
    /\ selected' = selected

\* The stage coordinate of an edge of a rectangle, in units of 1/200 px.
RectEdge(rect, edge) ==
    CASE edge = "left" -> rect.x [] edge = "right" -> rect.x + rect.width
      [] edge = "top" -> rect.y [] edge = "bottom" -> rect.y + rect.height

FarEdge(edge) ==
    CASE edge = "left" -> "right" [] edge = "right" -> "left"
      [] edge = "top" -> "bottom" [] edge = "bottom" -> "top"

\* C11: on an image turned by quarter turns, with any flips, a crop update by the
\* visual handle v leaves the edge opposite v of the on-screen rectangle at its stage
\* coordinate.
C11_AnchorEdgeStays ==
    [][(CropStep /\ NodeOf(selected).rotation % 90 = 0)
         => RectEdge(getClientRect(NodeOf(selected)'), FarEdge(gesture'.handle))
               = RectEdge(getClientRect(NodeOf(selected)), FarEdge(gesture'.handle))]_vars

\* The left handle of a mirrored image turned by 270 degrees was dragged: the crop
\* changed and the node was moved to keep the right edge.
C11_Witness ==
    /\ hist[2].name = "cropDragStart"
    /\ selected # NoNode
    /\ gesture.handle = "left"
    /\ NodeOf(selected).rotation = 270
    /\ NodeOf(selected).scaleX < 0
    /\ NodeOf(selected).cropBounds # hist[2].before[1].cropBounds
    /\ NodeOf(selected).x # hist[2].before[1].x

\* C12: with rotation 0, with any flips and any scale, a crop update by one handle
\* leaves the three other edges of the on-screen rectangle at their stage coordinates.
C12_OtherEdgesStay ==
    [][(CropStep /\ NodeOf(selected).rotation = 0)
         => \A edge \in Edges \ {gesture'.handle} :
               RectEdge(getClientRect(NodeOf(selected)'), edge)
                  = RectEdge(getClientRect(NodeOf(selected)), edge)]_vars

\* The top handle of an unturned image, flipped and at half scale, was dragged on:
\* the crop grew.
C12_Witness ==
    /\ hist[2].name = "cropDragMove"
    /\ selected # NoNode
    /\ gesture.handle = "top"
    /\ NodeOf(selected).rotation = 0
    /\ NodeOf(selected).scaleY = -50
    /\ NodeOf(selected).cropBounds.bottom > 8

\* C13: on an uncropped, unflipped image of W x H with rotation 0, a drag of the left
\* handle inwards by d source pixels, d <= W - 20, gives cropBounds.left = d and the
\* cropped width W - d, keeps the right edge and moves the left edge by d x scaleX.
C13_LeftCropByDistance ==
    [][(/\ CropStep
        /\ hist'[2].name = "cropDragStart"
        /\ gesture'.handle = "left"
        /\ NodeOf(selected).rotation = 0
        /\ NodeOf(selected).scaleX > 0
        /\ NodeOf(selected).scaleY > 0
        /\ NodeOf(selected).cropBounds = ZeroCrop)
         => LET before == NodeOf(selected)
                after == NodeOf(selected)'
                d == (gesture'.pos - getClientRect(before).x) \div (2 * before.scaleX)
            IN  (d >= 0 /\ d <= before.originalWidth - 20)
                => /\ after.cropBounds = [ZeroCrop EXCEPT !.left = d]
                   /\ after.originalWidth - after.cropBounds.left - after.cropBounds.right
                         = before.originalWidth - d
                   /\ RectEdge(getClientRect(after), "right")
                         = RectEdge(getClientRect(before), "right")
                   /\ RectEdge(getClientRect(after), "left")
                         = RectEdge(getClientRect(before), "left") + 2 * d * before.scaleX]_vars

\* The left 100 pixels of a 1000 x 800 image were cropped: the left bound is 100 and
\* 900 pixels are left.
C13_Witness ==
    /\ hist[2].name = "cropDragStart"
    /\ selected # NoNode
    /\ NodeOf(selected).originalWidth = 1000
    /\ NodeOf(selected).originalHeight = 800
    /\ NodeOf(selected).rotation = 0
    /\ NodeOf(selected).cropBounds = [ZeroCrop EXCEPT !.left = 100]
    /\ cropWidthOf(NodeOf(selected)) = 900

\* C14: with an image selected, a digit key pressed while no digit is pending starts
\* the 300 ms timer and changes no image; a digit key b pressed while the digit a is
\* pending sets the opacity to 10a + b hundredths; the timer that fires on the
\* pending digit k sets the opacity to k tenths, to 1 for k = 0; after either the
\* input is idle.
C14_OpacityDigits ==
    [][/\ (hist'[2].name = "opacityKey" /\ steps' = steps + 1 /\ selected # NoNode)
          => IF opacityInput.firstDigit = NoDigit
             THEN /\ opacityInput' = [firstDigit |-> hist'[2].arg, timeout |-> TRUE]
                  /\ layer' = layer
             ELSE /\ NodeOf(selected)'.opacity
                        = 10 * opacityInput.firstDigit + hist'[2].arg
                  /\ opacityInput' = [firstDigit |-> NoDigit, timeout |-> FALSE]
       /\ (hist'[2].name = "opacityTimeout" /\ steps' = steps + 1 /\ selected # NoNode)
          => /\ NodeOf(selected)'.opacity
                   = IF opacityInput.firstDigit = 0 THEN 100
                     ELSE 10 * opacityInput.firstDigit
             /\ opacityInput' = [firstDigit |-> NoDigit, timeout |-> FALSE]]_vars

\* The keys "2" and "5" were pressed within 300 ms: the opacity is 0.25.
C14_Witness ==
    /\ hist[1].name = "opacityKey"
    /\ hist[1].arg = 2
    /\ hist[2].name = "opacityKey"
    /\ hist[2].arg = 5
    /\ selected # NoNode
    /\ NodeOf(selected).opacity = 25
    /\ opacityInput = NoOpacityInput

\* C15: an operation on the selection that is called while nothing is selected leaves
\* the scene, the selection, the undo stack and the redo stack as they are.
C15_NoSelectionNoChange ==
    [][(selected = NoNode /\ steps' = steps + 1 /\ hist'[2].name \in SelectionOps)
         => UNCHANGED <<layer, selected, undoStack, redoStack>>]_vars

\* deleteSelected() was called with nothing selected, in a scene of one image and
\* with snapshots on both stacks.
C15_Witness ==
    /\ hist[2].name = "deleteSelected"
    /\ hist[2].kind = "other"
    /\ selected = NoNode
    /\ Len(layer) = 1
    /\ undoStack # <<>>
    /\ redoStack # <<>>

\* A step that is a load of the project file hist'[2].arg.
LoadStep == hist'[2].name = "loadProject" /\ steps' = steps + 1

\* The archive cannot be unpacked, project.json is missing or cannot be parsed, or an
\* image of the archive fails to decode.
FailingFile(file) ==
    \/ ~file.unpacks
    \/ file.project \in {"missing", "unparsable"}
    \/ \E i \in DOMAIN file.images : file.images[i].present /\ ~file.images[i].decodes

\* C16: a project load that fails leaves the scene, the selection, the undo stack and
\* the redo stack as they were: nothing is merged and no snapshot is pushed.
C16_FailedLoadChangesNothing ==
    [][(LoadStep /\ FailingFile(hist'[2].arg))
         => UNCHANGED <<layer, selected, undoStack, redoStack>>]_vars

\* An archive whose second image does not decode was loaded into a scene with an
\* image and with snapshots on both stacks: an alert was shown.
C16_Witness ==
    /\ hist[2].name = "loadProject"
    /\ FailingFile(hist[2].arg)
    /\ hist[2].arg.unpacks
    /\ hist[2].arg.project = "ok"
    /\ Len(layer) >= 1
    /\ undoStack # <<>>
    /\ redoStack # <<>>
    /\ alerts = 1

\* project.json names an image file that the archive does not hold.
LacksImageFile(file) ==
    /\ file.unpacks
    /\ file.project = "ok"
    /\ \E i \in DOMAIN file.images : ~file.images[i].present

\* C17: the load of an archive that lacks an image file named in project.json is
\* reported to the user and adds no image to the scene.
C17_MissingImageAborts ==
    [][(LoadStep /\ LacksImageFile(hist'[2].arg))
         => (alerts' = alerts + 1 /\ SceneOf(layer') = SceneOf(layer))]_vars

\* A file of a batch that fails to decode: the HEIC conversion throws, or the image
\* does not decode.
UndecodableFile(file) ==
    \/ file.kind = "heic" /\ ~file.converts
    \/ file.kind \in {"heic", "image"} /\ ~file.decodes

\* A step that is the turn of the loop of handleFiles for the first file of the batch.
BatchStep == batch # <<>> /\ batch' = Tail(batch) /\ steps' = steps + 1

\* C18: a file of a batch that fails to decode is skipped with an error shown to the
\* user; the images in the scene stay and the rest of the batch stays to be handled.
C18_DecodeFailureSkipsFile ==
    [][(BatchStep /\ UndecodableFile(Head(batch)))
         => (/\ alerts' = alerts + 1
             /\ SceneOf(layer') = SceneOf(layer)
             /\ batch' = Tail(batch))]_vars

\* The same without the error shown.
DecodeFailureKeepsBatchGoing ==
    [][(BatchStep /\ UndecodableFile(Head(batch)))
         => (SceneOf(layer') = SceneOf(layer) /\ batch' = Tail(batch))]_vars

\* The error is shown when the HEIC conversion throws.
HeicFailureShown ==
    [][(BatchStep /\ Head(batch).kind = "heic" /\ ~Head(batch).converts)
         => alerts' = alerts + 1]_vars

\* A step that is a load which merged the images of the project file hist'[2].arg.
MergeStep == LoadStep /\ ~FailingFile(hist'[2].arg)

IdsOf(L) == {L[i].imageId : i \in DOMAIN L}

\* C19: a merge-import keeps the images of the scene, fields and order, below the
\* loaded ones; the loaded images get ids that differ from the ids in the scene, from
\* the ids stored in the archive and from each other; one snapshot is pushed, and
\* one undo() after the load restores the scene as it was before it.
C19_MergeImport ==
    [][/\ MergeStep =>
            LET n == Len(layer)
                file == hist'[2].arg
                archiveIds == {file.images[i].id : i \in DOMAIN file.images}
                loadedAt == (n + 1)..Len(layer')
            IN  /\ Len(layer') = n + Cardinality({i \in DOMAIN file.images :
                                                     file.images[i].present})
                /\ SubSeq(SceneOf(layer'), 1, n) = SceneOf(layer)
                /\ \A i \in loadedAt :
                      /\ layer'[i].imageId \notin IdsOf(layer)
                      /\ layer'[i].imageId \notin archiveIds
                      /\ \A j \in loadedAt : layer'[j].imageId = layer'[i].imageId => j = i
                /\ Len(undoStack') = Len(undoStack) + 1
                /\ Front(undoStack') = undoStack
                /\ SceneOfState(Last(undoStack')) = SceneOf(layer)
       /\ (hist[2].name = "loadProject" /\ hist[2].kind = "op"
             /\ hist'[2].name = "undo" /\ steps' = steps + 1)
            => SceneOf(layer') = hist[2].before]_vars

\* The project saved from a scene of two images was loaded into that scene, and the
\* load was undone.
C19_Witness ==
    /\ hist[1].name = "loadProject"
    /\ hist[1].kind = "op"
    /\ Len(hist[1].arg.images) = 2
    /\ {hist[1].arg.images[i].id : i \in 1..2} = IdsOf(layer)
    /\ hist[2].name = "undo"
    /\ Len(layer) = 2

\* A step that restores a state: undo, redo, or a merge-import.
RestoreStep ==
    /\ steps' = steps + 1
    /\ \/ hist'[2].name \in {"undo", "redo"}
       \/ MergeStep

\* C20: after a restore the selected image is the one with the id of the image
\* selected before, if the restored scene has an image with that id, and nothing is
\* selected otherwise.
C20_RestoreKeepsSelectionById ==
    [][RestoreStep =>
         LET id == IF selected # NoNode /\ IsLive(selected)
                   THEN NodeOf(selected).imageId ELSE NoId
         IN  IF id # NoId /\ id \in IdsOf(layer')
             THEN \E i \in DOMAIN layer' :
                     layer'[i].nid = selected' /\ layer'[i].imageId = id
             ELSE selected' = NoNode]_vars

\* An undo removed the second of two images and the first one is still selected.
C20_Witness ==
    /\ hist[2].name = "undo"
    /\ Len(hist[2].before) = 2
    /\ Len(layer) = 1
    /\ selected # NoNode
    /\ selected = layer[1].nid

\* C21: the selection is empty or an image of the scene, and an entry of the context
\* menu is never applied to a node that has been destroyed.
C21_SelectionExists ==
    [][/\ (selected' = NoNode \/ \E i \in DOMAIN layer' : layer'[i].nid = selected')
       /\ (hist'[2].name = "menuClick" /\ steps' = steps + 1) => IsLive(contextMenu)]_vars

\* Without the context menu the selection is empty or an image of the scene.
SelectionIsLive == selected = NoNode \/ IsLive(selected)

\* The ids of the images of the snapshots of a stack.
StackIds(stack) == UNION {{stack[k][i].id : i \in DOMAIN stack[k]} : k \in DOMAIN stack}

\* The ids of a snapshot, back to front.
IdSeq(state) == [i \in DOMAIN state |-> state[i].id]

\* C22: the images of the scene have pairwise distinct ids; undo and redo restore the
\* images with the ids of the restored snapshot; the image added by a duplicate and
\* the images added by a merge-import get ids that no image of the scene and no
\* snapshot on the undo or redo stack has.
C22_IdsUniqueAndStable ==
    [][/\ \A i, j \in DOMAIN layer' : layer'[i].imageId = layer'[j].imageId => i = j
       /\ (hist'[2].name = "undo" /\ steps' = steps + 1 /\ undoStack # <<>>)
            => IdSeq(SceneOf(layer')) = IdSeq(Last(undoStack))
       /\ (hist'[2].name = "redo" /\ steps' = steps + 1 /\ redoStack # <<>>)
            => IdSeq(SceneOf(layer')) = IdSeq(Last(redoStack))
       /\ (steps' = steps + 1 /\ (hist'[2].name = "duplicateImage" \/ MergeStep))
            => /\ Len(layer') > Len(layer)
               /\ \A i \in (Len(layer) + 1)..Len(layer') :
                     layer'[i].imageId \notin
                        IdsOf(layer) \cup StackIds(undoStack) \cup StackIds(redoStack)]_vars

\* An image was duplicated while the redo stack held a snapshot with an earlier
\* duplicate of it.
C22_Witness ==
    /\ hist[1].name = "undo"
    /\ hist[2].name = "duplicateImage"
    /\ Len(layer) = 2
    /\ layer[1].imageId = 1
    /\ layer[2].imageId = 3

\* The n images of a snapshot have the zIndex 0..n-1, in the order of the snapshot.
Dense(state) == \A i \in DOMAIN state : state[i].zIndex = i - 1

\* C23: every captured snapshot, on the undo stack, on the redo stack or captured from
\* the scene for a save or a merge, gives its n images the zIndex 0..n-1 in paint
\* order, and so does the merged state a merge-import restores.
C23_SnapshotsDense ==
    [][/\ \A k \in DOMAIN undoStack' : Dense(undoStack'[k])
       /\ \A k \in DOMAIN redoStack' : Dense(redoStack'[k])
       /\ Dense(captureState(layer'))
       /\ IdSeq(captureState(layer')) = [i \in DOMAIN layer' |-> layer'[i].imageId]
       /\ MergeStep =>
            \E merged \in {mergedState(captureState(layer),
                              recentred(deserializeStateFromZip(hist'[2].arg.images),
                                        nextImageId
                                          + generatedIds(hist'[2].arg.images)))} :
                /\ Dense(merged)
                /\ SceneOf(layer') = SceneOfState(merged)]_vars

\* The two images of an archive, stored there front to back, were merged into a scene
\* of one image, and the load was undone.
C23_Witness ==
    /\ hist[1].name = "loadProject"
    /\ hist[1].kind = "op"
    /\ Len(hist[1].arg.images) = 2
    /\ hist[1].arg.images[1].zIndex > hist[1].arg.images[2].zIndex
    /\ hist[2].name = "undo"
    /\ Len(layer) = 1
    /\ Len(redoStack) = 1
    /\ Len(redoStack[1]) = 3

\* C24: the project data a save writes are those of the scene as it was when the save
\* was initiated, whatever was done to the scene while the save was pending; the
\* images encoded so far by a save in flight are those of that one scene.
C24_SaveWritesInitialScene ==
    /\ \A d \in DOMAIN downloads :
          /\ SceneOfState(downloads[d].projectData) = downloads[d].initiated
          /\ Dense(downloads[d].projectData)
    /\ \A k \in DOMAIN saves :
          SceneOfState(saves[k].projectData)
            = SubSeq(saves[k].initiated, 1, Len(saves[k].projectData))

\* A save of two images was written after the scene had changed.
C24_Witness ==
    \E d \in DOMAIN downloads :
        /\ Len(downloads[d].projectData) = 2
        /\ downloads[d].written # downloads[d].initiated
        /\ Len(downloads[d].written) = 2

\* C25: at most one project save is in flight at any time.
C25_OneSaveInFlight == Len(saves) <= 1

\* C26: the project data of a scene, deserialized and serialized again, are the same
\* project data, field for field, ids included.
C26_SaveLoadSaveRoundTrip ==
    probe.order = "resaved" => probe.resaved = probe.saved

\* A scene of two images, the upper one fully transparent and with defaulted fields,
\* went through the round trip.
C26_Witness ==
    /\ probe.order = "resaved"
    /\ Len(probe.saved) = 2
    /\ \E i \in 1..2 : probe.saved[i].opacity = 0 /\ probe.saved[i].name = "image-1"
    /\ \E i \in 1..2 : probe.saved[i].blendMode = "screen"

\* The images deserialized from project data, each with the array index (from 0) of
\* its entry in project.json.
ParsedFrom(data) == {j \in DOMAIN data : data[j].present}

IndexOfParsed(data, k) ==
    CHOOSE j \in ParsedFrom(data) : Cardinality({h \in ParsedFrom(data) : h <= j}) = k

\* C27: a field that an image entry of project.json lacks is defaulted (id: a fresh
\* id, cropBounds: all zero, blendMode: source-over, opacity: 1, zIndex: the array
\* index of the entry), and a field that is there is kept, an opacity of 0 included.
C27_MissingFieldsDefaulted ==
    probe.order = "parsed" =>
        /\ Len(probe.parsed) = Cardinality(ParsedFrom(probe.data))
        /\ \A k \in DOMAIN probe.parsed :
              LET j == IndexOfParsed(probe.data, k)
                  imgData == probe.data[j]
                  img == probe.parsed[k]
                  lacks(f) == f \in imgData.absent
              IN  /\ IF lacks("id")
                     THEN /\ img.id # NoId
                          /\ \A h \in DOMAIN probe.data :
                                "id" \notin probe.data[h].absent => probe.data[h].id # img.id
                          /\ \A h \in DOMAIN probe.parsed : probe.parsed[h].id = img.id => h = k
                     ELSE img.id = imgData.id
                  /\ img.cropBounds = IF lacks("cropBounds") THEN ZeroCrop
                                      ELSE imgData.cropBounds
                  /\ img.blendMode = IF lacks("blendMode") THEN "source-over"
                                     ELSE imgData.blendMode
                  /\ img.opacity = IF lacks("opacity") THEN OpacityOne ELSE imgData.opacity
                  /\ img.zIndex = IF lacks("zIndex") THEN j - 1 ELSE imgData.zIndex

\* The second entry of project.json had none of the fields but an opacity of 0.
C27_Witness ==
    /\ probe.order = "parsed"
    /\ Len(probe.parsed) = 2
    /\ probe.data[2].absent = OptionalFields \ {"opacity"}
    /\ probe.data[2].opacity = 0
    /\ probe.parsed[2].opacity = 0
    /\ probe.parsed[2].zIndex = 1

\* How far the selected image is moved by the step.
NudgedBy ==
    Abs(NodeOf(selected)'.x - NodeOf(selected).x)
        + Abs(NodeOf(selected)'.y - NodeOf(selected).y)

\* C28: an arrow key pressed with Shift moves the selected image farther than the
\* same arrow key pressed without Shift.
C28_ShiftArrowMovesFarther ==
    [][(hist'[2].name = "nudge" /\ steps' = steps + 1 /\ hist'[2].arg.shiftKey)
         => NudgedBy > Abs(nudgeOf([hist'[2].arg EXCEPT !.shiftKey = FALSE]).amount)]_vars

\* What the code does instead: Shift leaves the distance as it is.
ShiftArrowMovesAsFar ==
    [][(hist'[2].name = "nudge" /\ steps' = steps + 1)
         => NudgedBy = Abs(nudgeOf([hist'[2].arg EXCEPT !.shiftKey = FALSE]).amount)]_vars

\* The images of a layer but the node nid, back to front.
Others(L, nid) == SelectSeq(SceneOf(L), LAMBDA e : e.id # NodeOf(nid).imageId)

\* C29: bringToTop() makes the selected image the last painted and sendToBottom()
\* makes it the first painted; the other images keep their order, no image changes,
\* and the captured order is dense again.
C29_TopAndBottom ==
    [][(steps' = steps + 1 /\ hist'[2].name \in {"bringToTop", "sendToBottom"})
         => /\ Len(layer') = Len(layer)
            /\ selected' = selected
            /\ IF hist'[2].name = "bringToTop"
               THEN Entity(Last(layer')) = Entity(NodeOf(selected))
               ELSE Entity(Head(layer')) = Entity(NodeOf(selected))
            /\ IF hist'[2].name = "bringToTop"
               THEN Front(SceneOf(layer')) = Others(layer, selected)
               ELSE Tail(SceneOf(layer')) = Others(layer, selected)
            /\ Dense(captureState(layer'))]_vars

\* The lowest of three images was brought to the top.
C29_Witness ==
    /\ hist[2].name = "bringToTop"
    /\ Len(layer) = 3
    /\ Len(hist[2].before) = 3
    /\ hist[2].before[1].id = layer[3].imageId
    /\ hist[2].before[2].id = layer[1].imageId
    /\ hist[2].before[3].id = layer[2].imageId

\* C30: duplicate() adds one image on top, with a new id, 30 px right of and below the
\* selected image, and with its source size, scale, rotation, cropBounds, blendMode
\* and opacity; the new image is selected and no other image changes.
C30_DuplicateClones ==
    [][(steps' = steps + 1 /\ hist'[2].name = "duplicateImage")
         => LET node == NodeOf(selected)
                clone == Last(layer')
            IN  /\ Len(layer') = Len(layer) + 1
                /\ Front(layer') = layer
                /\ clone.imageId \notin IdsOf(layer)
                /\ clone.originalWidth = node.originalWidth
                /\ clone.originalHeight = node.originalHeight
                /\ clone.scaleX = node.scaleX
                /\ clone.scaleY = node.scaleY
                /\ clone.rotation = node.rotation
                /\ clone.cropBounds = node.cropBounds
                /\ clone.blendMode = node.blendMode
                /\ clone.opacity = node.opacity
                /\ clone.x = node.x + 30
                /\ clone.y = node.y + 30
                /\ selected' = clone.nid]_vars

\* The lower of two images, turned and flipped, was duplicated.
C30_Witness ==
    /\ hist[2].name = "duplicateImage"
    /\ Len(layer) = 3
    /\ layer[3].imageId = 3
    /\ layer[3].x = layer[1].x + 30
    /\ layer[3].scaleX = layer[1].scaleX
    /\ \/ layer[3].scaleX < 0
       \/ layer[3].rotation # 0
       \/ layer[3].scaleY < 0

\* C31: setOpacity(percent) stores 0 for a percent below 0, 1 for a percent above 100
\* and percent/100 otherwise, and the opacity of every image of the scene and of every
\* snapshot is within [0, 1] after any sequence of adds, digit keys, setOpacity calls,
\* duplicates, undos and redos.
C31_OpacityClamped ==
    /\ [](/\ \A i \in 1..Len(layer) : layer[i].opacity \in 0..OpacityOne
          /\ \A k \in 1..Len(undoStack) : \A i \in 1..Len(undoStack[k]) :
                undoStack[k][i].opacity \in 0..OpacityOne
          /\ \A k \in 1..Len(redoStack) : \A i \in 1..Len(redoStack[k]) :
                redoStack[k][i].opacity \in 0..OpacityOne)
    /\ [][(steps' = steps + 1 /\ hist'[2].name = "setOpacity")
            => LET percent == hist'[2].arg
               IN  NodeOf(selected)'.opacity
                     = IF percent < 0 THEN 0
                       ELSE IF percent > 100 THEN OpacityOne
                       ELSE percent]_vars

\* setOpacity(250) was called on a duplicate whose original had the opacity 0.37: the
\* duplicate is opaque.
C31_Witness ==
    /\ hist[1].name = "duplicateImage"
    /\ hist[2].name = "setOpacity"
    /\ hist[2].arg = 250
    /\ Len(layer) = 2
    /\ layer[1].opacity = 37
    /\ layer[2].opacity = OpacityOne

VariantScene(L) == [i \in 1..Len(L) |-> [Entity(L[i]) EXCEPT !.id = NoId]]

\* C33: given the same operations that both variants offer, the simpler variant has
\* the same entities with the same field values in the same paint order as this
\* editor, ids aside.
C33_VariantsAgree == VariantScene(layer) = VariantScene(simple.layer)

\* The place of the node nid among the children L, 0 for no node.
PlaceOf(L, nid) ==
    IF \E i \in DOMAIN L : L[i].nid = nid THEN CHOOSE i \in DOMAIN L : L[i].nid = nid
    ELSE 0

\* The variants have the same entities, the same selection and the same imageCount.
VariantsInStep ==
    /\ C33_VariantsAgree
    /\ PlaceOf(layer, selected) = PlaceOf(simple.layer, simple.selected)
    /\ imageCount = simple.imageCount

\* The variants stay in step over every operation but a flip of an image that is
\* turned sideways and a load of a project of which an image is missing or fails to
\* decode.
VariantsAgreeButFlipAndLoad ==
    [][(/\ VariantsInStep
        /\ ~(/\ hist'[2].name \in {"flipHorizontal", "flipVertical"}
             /\ steps' = steps + 1
             /\ isRotatedSideways(NodeOf(selected).rotation))
        /\ ~(/\ hist'[2].name = "loadProject"
             /\ steps' = steps + 1
             /\ \E i \in DOMAIN hist'[2].arg.images :
                   \/ ~hist'[2].arg.images[i].present
                   \/ ~hist'[2].arg.images[i].decodes))
       => VariantsInStep']_vars

\* C34: a crop update by the visual handle v changes no crop bound of the selected
\* image but that of the source edge getSourceEdge(v, rotation, scaleX, scaleY); it
\* leaves the image its scale, rotation, blend mode, opacity, id, source and place in
\* the paint order, moves it along the axis of v only, and leaves every other image
\* as it is.
C34_CropStepFrame ==
    [][CropStep
         => LET n == NodeOf(selected)
                m == NodeOf(selected)'
                v == gesture'.handle
                sourceEdge == getSourceEdge(v, n.rotation, n.scaleX, n.scaleY)
            IN  /\ \A edge \in Edges \ {sourceEdge} :
                      m.cropBounds[edge] = n.cropBounds[edge]
                /\ m = [n EXCEPT !.cropBounds = m.cropBounds, !.x = m.x, !.y = m.y]
                /\ IF v \in {"left", "right"} THEN m.y = n.y ELSE m.x = n.x
                /\ Len(layer') = Len(layer)
                /\ \A i \in DOMAIN layer :
                      /\ layer'[i].nid = layer[i].nid
                      /\ layer[i].nid # selected => layer'[i] = layer[i]]_vars

\* The bottom handle of the lower of two images, turned by 90 degrees and mirrored,
\* was dragged: one crop bound of that image changed.
C34_Witness ==
    /\ hist[2].name = "cropDragStart"
    /\ gesture.handle = "bottom"
    /\ Len(layer) = 2
    /\ selected = layer[1].nid
    /\ JsRem(layer[1].rotation, 180) # 0
    /\ \/ layer[1].scaleX < 0
       \/ layer[1].scaleY < 0
    /\ layer[1].cropBounds # hist[2].before[1].cropBounds

\* C35: for a rotation that is a multiple of 90 degrees, negative and beyond 360
\* included, and any flips, getSourceEdge(v, rotation, scaleX, scaleY) is the source
\* edge that the renderer (scale in the source frame, then the clockwise rotation)
\* draws on the side v of the on-screen rectangle.
C35_SourceEdgeIsDrawnEdge ==
    (probe.order = "visual-source-visual" /\ probe.rotation % 90 = 0)
    => probe.sourceEdge = sourceEdgeShownAt(probe.edge, probe)

\* The top handle of an image turned by 810 degrees and mirrored in x: the source
\* edge drawn at the top is the right one.
C35_Witness ==
    /\ probe.order = "visual-source-visual"
    /\ probe.rotation = 810
    /\ probe.scaleX < 0
    /\ probe.scaleY > 0
    /\ probe.edge = "top"
    /\ probe.sourceEdge = "right"

\* C36: the undo stack and the redo stack together never hold more than 30 snapshots,
\* and undo() and redo() each move one snapshot from one stack to the other, so that
\* the redo stack never holds more than 30.
C36_StacksBoundedTogether ==
    /\ [](/\ Len(undoStack) + Len(redoStack) <= MAX_UNDO_LEVELS
          /\ Len(redoStack) <= MAX_UNDO_LEVELS)
    /\ [][(hist'[2].kind \in {"undo", "redo"} /\ steps' = steps + 1)
            => Len(undoStack') + Len(redoStack') = Len(undoStack) + Len(redoStack)]_vars

\* The undo stack was full and its oldest snapshot dropped; two undos later the two
\* stacks hold 30 snapshots together.
C36_Witness ==
    /\ hist[1].kind = "undo"
    /\ hist[2].kind = "undo"
    /\ Len(redoStack) = 2
    /\ Len(undoStack) = MAX_UNDO_LEVELS - 2
    /\ undoStack[1] # <<>>

\* C37: a keyboard nudge that follows an undo, a redo or an undoable operation that
\* is no nudge pushes a snapshot of the scene it finds, also while the 500 ms timer of
\* an earlier nudge is pending; and an undo() right after nudges leaves the scene that
\* was there before the first of those nudges.
C37_NudgeAfterOtherActionPushes ==
    /\ [][(/\ hist'[2].name = "nudge"
           /\ steps' = steps + 1
           /\ hist[2].name # "nudge"
           /\ hist[2].kind \in {"op", "cont", "undo", "redo"})
            => /\ undoStack' # <<>>
               /\ Len(undoStack') = Min2(Len(undoStack) + 1, MAX_UNDO_LEVELS)
               /\ SceneOfState(Last(undoStack')) = SceneOf(layer)]_vars
    /\ []((hist[2].kind = "undo" /\ hist[1].name = "nudge")
            => SceneOf(layer) = hist[1].before)

\* A nudge that follows another nudge within 500 ms pushes nothing, and a nudge that
\* finds no timer pending pushes a snapshot, whatever came before it.
NudgePushesByTimerOnly ==
    [][(hist'[2].name = "nudge" /\ steps' = steps + 1)
         => IF nudgeUndoPushed THEN undoStack' = undoStack /\ redoStack' = redoStack
            ELSE /\ SceneOfState(Last(undoStack')) = SceneOf(layer)
                 /\ redoStack' = <<>>]_vars

\* The rotations of the images of the scene and of the snapshots of both stacks.
RotationsHeld ==
    {layer[i].rotation : i \in DOMAIN layer}
    \cup UNION {{undoStack[k][i].rotation : i \in DOMAIN undoStack[k]} :
                   k \in DOMAIN undoStack}
    \cup UNION {{redoStack[k][i].rotation : i \in DOMAIN redoStack[k]} :
                   k \in DOMAIN redoStack}

\* C38: every rotation an image has after adds, quarter turns to the left and to the
\* right, duplicates, undos and redos is a multiple of 90, and isRotatedSideways is
\* true of it exactly when the rotation getSourceEdge and applyCropBounds snap it to
\* is 90 or 270.
C38_SidewaysMatchesSnappedRotation ==
    \A rotation \in RotationsHeld :
        /\ JsRem(rotation, 90) = 0
        /\ isRotatedSideways(rotation) <=> snappedRotation(rotation) \in {90, 270}

\* An image was turned to the right five times: its rotation is 450, sideways.
C38_Witness ==
    /\ hist[2].name = "rotateRight"
    /\ selected # NoNode
    /\ NodeOf(selected).rotation = 450
    /\ isRotatedSideways(450)
    /\ snappedRotation(450) = 90

\* A step that completes a pending digit sequence: the second digit or the timer.
DigitsComplete == opacityInput.firstDigit # NoDigit /\ opacityInput'.firstDigit = NoDigit

\* C39: when a digit sequence completes, no image other than the one that was selected
\* at its first digit changes its opacity, and a snapshot is pushed only when that
\* image is the one the value is applied to.
C39_DigitsApplyToFirstEntity ==
    [][DigitsComplete
         => /\ \A i \in DOMAIN layer', j \in DOMAIN layer :
                  layer'[i].nid = layer[j].nid /\ layer[j].imageId # digitFor
                      => layer'[i].opacity = layer[j].opacity
            /\ undoStack' # undoStack
                  => selected # NoNode /\ NodeOf(selected).imageId = digitFor]_vars

\* When a digit sequence completes the value goes to the image selected at that
\* moment, whichever it is, and without a selection nothing changes and nothing is
\* pushed.
DigitsApplyToSelectionAtCompletion ==
    [][DigitsComplete
         => IF selected = NoNode THEN UNCHANGED <<layer, undoStack, redoStack>>
            ELSE /\ \A i \in DOMAIN layer', j \in DOMAIN layer :
                       layer'[i].nid = layer[j].nid /\ layer[j].nid # selected
                           => layer'[i] = layer[j]
                 /\ undoStack' # undoStack]_vars

\* The image of a pending digit was deleted, or taken away by an undo, and the timer
\* fired: nothing changed.
DigitsEntityRemoved ==
    [][DigitsComplete /\ (\A j \in DOMAIN layer : layer[j].imageId # digitFor)
         /\ selected = NoNode
         => UNCHANGED <<layer, undoStack, redoStack>>]_vars

\* A step in which a loadProject() call that waited for its archive merges the
\* images it read.
LoadMerges == loading # NoLoad /\ loading' = NoLoad /\ ~deserializeThrows(loading.file)

\* C40: when a pending loadProject() merges, the scene as the user left it while the
\* load was pending is the first part of the merged scene, the loaded images follow
\* it, and the snapshot the merge pushes is that scene, edits included.
C40_PendingEditsKept ==
    [][LoadMerges
         => /\ undoStack' # <<>>
            /\ Last(undoStack') = captureState(layer)
            /\ Len(layer') = Len(layer) + Len(deserializeStateFromZip(loading.file.images))
            /\ SubSeq(captureState(layer'), 1, Len(layer)) = captureState(layer)
            /\ \A i \in 1..Len(layer) :
                  \A j \in (Len(layer) + 1)..Len(layer') :
                      layer'[i].imageId # layer'[j].imageId]_vars

\* An image was flipped while the load was pending, and the load has merged: the
\* scene holds the flipped image and the loaded one, the snapshot the flipped image.
C40_Witness ==
    /\ hist[2].name = "loadProject"
    /\ hist[2].kind = "op"
    /\ hist[1].name = "flipHorizontal"
    /\ hist[2].arg.state # <<>>
    /\ SceneOfState(hist[2].arg.state) # hist[2].before
    /\ undoStack # <<>>
    /\ SceneOfState(Last(undoStack)) = hist[2].before
    /\ Len(layer) = Len(hist[2].before) + 1
    /\ SubSeq(SceneOf(layer), 1, Len(hist[2].before)) = hist[2].before

====
